---- MODULE Spec2Model ----
(***************************************************************************)
(* Tournament engine of mtg_leaderboard: the Event document of             *)
(* backend/app/models/event.py and the tournament-flow endpoints of        *)
(* backend/app/routers/events.py.                                          *)
(*                                                                         *)
(* Spec      every endpoint runs to completion before the next one starts  *)
(*           (one action per handler).                                     *)
(* SpecConc  one request is cut at its awaits (Event.get, Match.get,       *)
(*           match.save, event.save) while other requests are served in    *)
(*           between; event.save() writes the whole loaded document back.  *)
(*                                                                         *)
(* Rating engine: backend/app/services/elo_calculator.py, elo_service.py   *)
(* and the match endpoints of backend/app/routers/matches.py.              *)
(*                                                                         *)
(* SpecDeck  two set-deck requests of an active event, cut at their awaits.*)
(* SpecElo   create, edit and delete of a playgroup's matches, each served *)
(*           to completion, with the ratings and history they maintain.    *)
(* SpecEloConc  two recalculations of a playgroup cut at their awaits.     *)
(* SpecFun   the pure functions applied to inputs of bounded sets.         *)
(***************************************************************************)
EXTENDS Integers, Sequences, FiniteSets, TLC

VARIABLES
    event,      \* the stored Event document
    matches,    \* the stored Match documents' event link (event_id, event_round)
    inflight,   \* SpecConc: the request suspended at an await, with the Event it loaded
    deck_calls, \* SpecDeck: the two set-deck requests and how far each has got
    pod_matches,\* the playgroup's stored Match documents, in created_at order
    ratings,    \* the playgroup's PlayerEloRating documents
    history,    \* the playgroup's EloHistoryEntry documents, in insertion order
    recalcs,    \* SpecEloConc: the recalculations under way and how far each has got
    probe       \* SpecFun: the last call of a pure function, arguments and result

event_vars == <<event, matches, inflight>>
elo_vars == <<pod_matches, ratings, history, recalcs>>

vars == <<event, matches, inflight, deck_calls, pod_matches, ratings, history, recalcs,
          probe>>

----------------------------------------------------------------------------
(* Bounds and sample data *)

\* Largest round_count an organizer picks in the model (the code allows 1..10).
MaxRounds == 2

\* SpecConc: how many accepted requests may overtake the suspended one.
MaxOverlap == 2

\* Registered players of the event: the smallest player_count the Event
\* validator accepts.
PlayerCount == 4

None == "None"
NoOrder == 0 - 1

PlayerIds == {"p1", "p2", "p3", "p4"}
RegisteredPlayers == SubSeq(<<"p1", "p2", "p3", "p4">>, 1, PlayerCount)
CreatorId == "p1"

\* current_player of a request: the creator, another registered player, or a
\* superuser account.
Callers ==
    [id : {"p1", "p3"}, is_superuser : {FALSE}] \cup [id : {"admin"}, is_superuser : {TRUE}]

EventTypes == {"tournament", "draft"}

MP(pid, deck, ord, win, by, typ) ==
    [player_id |-> pid, deck_name |-> deck, elimination_order |-> ord,
     is_winner |-> win, eliminated_by_player_id |-> by, elimination_type |-> typ]

\* The Match documents in the store (content; create_match accepts 3..6 players).
MatchStore ==
    [m \in {"m1", "m2"} |->
        IF m = "m1"
        THEN [players |-> << MP("p1", "d1", 1, TRUE, None, None),
                             MP("p2", "d2", 2, FALSE, "p1", "kill"),
                             MP("p3", "d3", 3, FALSE, None, "scoop") >>,
              winner_player_id |-> "p1"]
        ELSE [players |-> << MP("p4", "d4", 1, TRUE, None, None),
                             MP("p3", "d3", 2, FALSE, "p4", "kill"),
                             MP("p2", "d2", NoOrder, FALSE, None, None),
                             MP("p1", "d1", 4, FALSE, "p4", "kill") >>,
              winner_player_id |-> "p4"]]

MatchIds == DOMAIN MatchStore
\* match_id values the complete-match requests of Spec carry ("mX": no such
\* document).
MatchIdInputs == {"m1", "mX"}

\* Path parameters of the pod endpoints.
RoundNums == 1..MaxRounds
PodIndexes == {0, 1}

\* set-deck requests issued in the model.
DeckPlayers == {"p1"}
DeckIds == {"deckA", "deckX"}
DeckStore == [d \in {"deckA"} |-> [name |-> "dA"]]
DeckRounds == {1}
DeckPods == {0}

----------------------------------------------------------------------------
(* Helpers *)

Range(s) == {s[i] : i \in DOMAIN s}

Min(a, b) == IF a < b THEN a ELSE b

\* All orderings of the elements of a sequence without repeats.
Perms(s) ==
    LET n == Len(s)
    IN  {q \in [1..n -> Range(s)] : \A i, j \in 1..n : i # j => q[i] # q[j]}

ShuffleOutcomes == Perms(RegisteredPlayers)

----------------------------------------------------------------------------
(* models/event.py: document constructors *)

PodAssignment(idx, pids) ==
    [pod_index |-> idx, player_ids |-> pids, match_id |-> None,
     match_status |-> "pending", player_decks |-> {}]

RoundResult(pid, placement, kill, alt, scoop, total) ==
    [player_id |-> pid, placement_points |-> placement, kill_points |-> kill,
     alt_win_points |-> alt, scoop_penalty |-> scoop, total |-> total]

EmptyRound(n) ==
    [round_number |-> n, pods |-> <<>>, results |-> <<>>, status |-> "pending"]

StandingsEntry(pid) ==
    [player_id |-> pid, total_points |-> 0, wins |-> 0, kills |-> 0,
     round_points |-> <<>>]

\* create_event: the document inserted for an accepted request.
NewEvent(type, round_count) ==
    [event_type |-> type,
     creator_id |-> CreatorId,
     player_count |-> PlayerCount,
     round_count |-> round_count,
     players |-> RegisteredPlayers,
     status |-> "setup",
     current_round |-> 0,
     rounds |-> [i \in 1..round_count |-> EmptyRound(i)],
     standings |-> [i \in 1..Len(RegisteredPlayers) |-> StandingsEntry(RegisteredPlayers[i])],
     completed_at |-> None]

----------------------------------------------------------------------------
(* routers/events.py: pairing helpers *)

\* _create_pods_from_player_list: chunks of 4, the last one may be shorter.
create_pods_from_player_list(player_ids) ==
    LET n == Len(player_ids)
        k == (n + 3) \div 4
    IN  [c \in 1..k |->
            PodAssignment(c - 1, SubSeq(player_ids, 4 * (c - 1) + 1, Min(4 * c, n)))]

\* Mutant: range(0, len - 1) without the step of 2.
create_1v1_pairings_Mut(player_ids) ==
    [c \in 1..(Len(player_ids) - 1) |->
        PodAssignment(c - 1, <<player_ids[c], player_ids[c + 1]>>)]

\* _create_1v1_pairings: adjacent pairs, for i in range(0, len - 1, 2).
create_1v1_pairings(player_ids) ==
    LET n == Len(player_ids)
        k == n \div 2
    IN  [c \in 1..k |->
            PodAssignment(c - 1, <<player_ids[2 * c - 1], player_ids[2 * c]>>)]

\* previous_pairings of _swiss_pair: the 2-player pods of the given rounds
\* (a sequence of Round), each as a frozenset.
PreviousPairings(previous_rounds) ==
    UNION {{Range(previous_rounds[r].pods[p].player_ids) :
                p \in {q \in DOMAIN previous_rounds[r].pods :
                            Len(previous_rounds[r].pods[q].player_ids) = 2}} :
            r \in DOMAIN previous_rounds}

\* sorted(standings, key=(total_points, random.random()), reverse=True): every
\* order of the players that is non-increasing in total_points.
SortedOrders(standings) ==
    LET n == Len(standings)
        idx == {q \in [1..n -> 1..n] : \A i, j \in 1..n : i # j => q[i] # q[j]}
        ok == {q \in idx : \A i \in 1..(n - 1) :
                    standings[q[i]].total_points >= standings[q[i + 1]].total_points}
    IN  {[i \in 1..n |-> standings[q[i]].player_id] : q \in ok}

\* Mutant: pop(0) whatever the partner's index.
RemoveAt_Mut(s, i) == Tail(s)

RemoveAt(s, i) == SubSeq(s, 1, i - 1) \o SubSeq(s, i + 1, Len(s))

\* The while loop of _swiss_pair over `remaining`.
RECURSIVE SwissLoop(_, _)
SwissLoop(remaining, previous_pairings) ==
    IF Len(remaining) < 2 THEN <<>>
    ELSE LET p1 == Head(remaining)
             rest == Tail(remaining)
             fresh == {i \in DOMAIN rest : {p1, rest[i]} \notin previous_pairings}
             partner_idx == IF fresh = {} THEN 1
                            ELSE CHOOSE i \in fresh : \A j \in fresh : i <= j
         IN  <<<<p1, rest[partner_idx]>>>> \o
             SwissLoop(RemoveAt(rest, partner_idx), previous_pairings)

\* _swiss_pair for one outcome `order` of the random tie-break.
swiss_pair(order, previous_rounds) ==
    LET paired == SwissLoop(order, PreviousPairings(previous_rounds))
    IN  [i \in DOMAIN paired |-> PodAssignment(i - 1, paired[i])]

----------------------------------------------------------------------------
(* routers/events.py: scoring *)

\* placement_map.get(order, 0) with placement_map = {1: 3, 2: 2, 3: 1, 4: 0}
PlacementMap(order) ==
    CASE order = 1 -> 3
      [] order = 2 -> 2
      [] order = 3 -> 1
      [] OTHER -> 0

\* Mutant: the elimination kind is not looked at.
KillCount_Mut(match, pid) ==
    Cardinality({i \in DOMAIN match.players :
        /\ match.players[i].eliminated_by_player_id # None
        /\ match.players[i].eliminated_by_player_id = pid})

\* kill_counts.get(pid, 0): players whose eliminated_by_player_id is pid and
\* whose elimination_type is "kill".
KillCount(match, pid) ==
    Cardinality({i \in DOMAIN match.players :
        /\ match.players[i].eliminated_by_player_id # None
        /\ match.players[i].elimination_type = "kill"
        /\ match.players[i].eliminated_by_player_id = pid})

AltWinResult(mp) ==
    LET alt == IF mp.is_winner THEN 4 ELSE 0
        placement == IF mp.is_winner THEN 0
                     ELSE IF mp.elimination_order = NoOrder \/ mp.elimination_order = 1 THEN 2
                          ELSE PlacementMap(mp.elimination_order)
        scoop == IF mp.elimination_type = "scoop" THEN 0 - 1 ELSE 0
    IN  RoundResult(mp.player_id, placement, 0, alt, scoop, placement + 0 + alt + scoop)

NormalResult(match, mp) ==
    LET placement == IF mp.elimination_order # NoOrder /\ mp.elimination_order # 0
                     THEN PlacementMap(mp.elimination_order) ELSE 0
        kill == KillCount(match, mp.player_id)
        scoop == IF mp.elimination_type = "scoop" THEN 0 - 1 ELSE 0
    IN  RoundResult(mp.player_id, placement, kill, 0, scoop, placement + kill + scoop)

\* _calculate_match_points
calculate_match_points(match, is_alt_win) ==
    [i \in DOMAIN match.players |->
        IF is_alt_win THEN AltWinResult(match.players[i])
        ELSE NormalResult(match, match.players[i])]

\* complete_pod_match, event_type == "draft": 1 for the match winner, else 0.
DraftResults(match) ==
    [i \in DOMAIN match.players |->
        LET total == IF match.players[i].player_id = match.winner_player_id THEN 1 ELSE 0
        IN  RoundResult(match.players[i].player_id, total, 0, 0, 0, total)]

\* while len(round_points) < round_num: append(0)
PadTo(round_points, round_num) ==
    [i \in 1..(IF Len(round_points) < round_num THEN round_num ELSE Len(round_points)) |->
        IF i <= Len(round_points) THEN round_points[i] ELSE 0]

\* Mutant: the round's slot is overwritten instead of added to, and the kills
\* are not counted.
BumpStanding_Mut(st, rr, winner_player_id, round_num) ==
    LET padded == PadTo(st.round_points, round_num)
    IN  [st EXCEPT !.total_points = @ + rr.total,
                   !.wins = IF winner_player_id = rr.player_id THEN @ + 1 ELSE @,
                   !.round_points = [i \in DOMAIN padded |->
                                        IF i = round_num THEN rr.total ELSE padded[i]]]

\* The body of the standings loop for the entry that matches rr.player_id.
BumpStanding(st, rr, winner_player_id, round_num) ==
    LET padded == PadTo(st.round_points, round_num)
    IN  [st EXCEPT !.total_points = @ + rr.total,
                   !.kills = @ + rr.kill_points,
                   !.wins = IF winner_player_id = rr.player_id THEN @ + 1 ELSE @,
                   !.round_points = [i \in DOMAIN padded |->
                                        IF i = round_num THEN padded[i] + rr.total
                                        ELSE padded[i]]]

\* for standing in event.standings: if standing.player_id == rr.player_id: ...; break
ApplyResult(standings, rr, winner_player_id, round_num) ==
    LET hits == {i \in DOMAIN standings : standings[i].player_id = rr.player_id}
    IN  IF hits = {} THEN standings
        ELSE LET first == CHOOSE i \in hits : \A j \in hits : i <= j
             IN  [standings EXCEPT
                     ![first] = BumpStanding(@, rr, winner_player_id, round_num)]

\* for rr in round_results: ...
RECURSIVE ApplyResults(_, _, _, _)
ApplyResults(standings, round_results, winner_player_id, round_num) ==
    IF round_results = <<>> THEN standings
    ELSE ApplyResults(ApplyResult(standings, Head(round_results), winner_player_id, round_num),
                      Tail(round_results), winner_player_id, round_num)

----------------------------------------------------------------------------
(* routers/events.py: tournament-flow endpoints as functions of the Event  *)
(* document the handler loaded: the response code, and the document it     *)
(* saves when the code is "ok".                                            *)

\* for r in event.rounds: if r.round_number == round_num: ...; break
\* (index of the first such round, 0 when there is none)
FindRound(ev, round_num) ==
    LET hits == {i \in DOMAIN ev.rounds : ev.rounds[i].round_number = round_num}
    IN  IF hits = {} THEN 0 ELSE CHOOSE i \in hits : \A j \in hits : i <= j

\* for pa in current_round.pods: if pa.pod_index == pod_index: ...; break
FindPod(round, pod_index) ==
    LET hits == {i \in DOMAIN round.pods : round.pods[i].pod_index = pod_index}
    IN  IF hits = {} THEN 0 ELSE CHOOSE i \in hits : \A j \in hits : i <= j

IsCreator(ev, caller) == ev.creator_id = caller.id \/ caller.is_superuser

\* ---- start_tournament ----
\* Mutant: the status check of start_tournament left out.
StartStatusOk_Mut(ev) == TRUE

StartStatusOk(ev) == ev.status = "setup"

start_tournament_code(ev, caller) ==
    IF ~IsCreator(ev, caller) THEN "403"
    ELSE IF ~StartStatusOk(ev) THEN "400"
    ELSE "ok"

Round1Pods(ev, shuffled) ==
    IF ev.event_type = "draft" THEN create_1v1_pairings(shuffled)
    ELSE create_pods_from_player_list(shuffled)

start_tournament_save(ev, shuffled) ==
    [ev EXCEPT !.rounds[1].pods = Round1Pods(ev, shuffled),
               !.rounds[1].status = "in_progress",
               !.status = "active",
               !.current_round = 1]

\* ---- start_pod_match ----
StartMatchPodOk(pod) == pod.match_status = "pending"

start_pod_match_code(ev, round_num, pod_index, caller) ==
    IF ev.status # "active" THEN "400"
    ELSE IF round_num # ev.current_round THEN "400"
    ELSE IF FindRound(ev, round_num) = 0 THEN "404"
    ELSE LET round == ev.rounds[FindRound(ev, round_num)]
         IN  IF FindPod(round, pod_index) = 0 THEN "404"
             ELSE LET pod == round.pods[FindPod(round, pod_index)]
                  IN  IF caller.id \notin Range(pod.player_ids) /\ ~caller.is_superuser
                      THEN "403"
                      ELSE IF ~StartMatchPodOk(pod) THEN "400"
                      ELSE "ok"

start_pod_match_save(ev, round_num, pod_index) ==
    LET r == FindRound(ev, round_num)
        p == FindPod(ev.rounds[r], pod_index)
    IN  [ev EXCEPT !.rounds[r].pods[p].match_status = "in_progress",
                   !.rounds[r].status = "in_progress"]

\* ---- cancel_pod_match ----
\* Mutant: cancel_pod_match rejects only pending pods.
CancelPodOk_Mut(pod) == pod.match_status # "pending"

CancelPodOk(pod) == pod.match_status = "in_progress"

cancel_pod_match_code(ev, round_num, pod_index) ==
    IF ev.status # "active" THEN "400"
    ELSE IF FindRound(ev, round_num) = 0 THEN "404"
    ELSE LET round == ev.rounds[FindRound(ev, round_num)]
         IN  IF FindPod(round, pod_index) = 0 THEN "404"
             ELSE IF ~CancelPodOk(round.pods[FindPod(round, pod_index)]) THEN "400"
             ELSE "ok"

cancel_pod_match_save(ev, round_num, pod_index) ==
    LET r == FindRound(ev, round_num)
        p == FindPod(ev.rounds[r], pod_index)
    IN  [ev EXCEPT !.rounds[r].pods[p].match_status = "pending",
                   !.rounds[r].pods[p].match_id = None]

\* ---- complete_pod_match ----
\* Mutant: the already-completed check of complete_pod_match left out.
CompletePodOk_Mut(pod) == TRUE

CompletePodOk(pod) == pod.match_status # "completed"

\* The checks made on the loaded event, before Match.get.
complete_pod_match_event_code(ev, round_num, pod_index) ==
    IF ev.status # "active" THEN "400"
    ELSE IF round_num # ev.current_round THEN "400"
    ELSE IF FindRound(ev, round_num) = 0 THEN "404"
    ELSE LET round == ev.rounds[FindRound(ev, round_num)]
         IN  IF FindPod(round, pod_index) = 0 THEN "404"
             ELSE IF ~CompletePodOk(round.pods[FindPod(round, pod_index)]) THEN "400"
             ELSE "ok"

complete_pod_match_code(ev, round_num, pod_index, match_id) ==
    IF complete_pod_match_event_code(ev, round_num, pod_index) # "ok"
    THEN complete_pod_match_event_code(ev, round_num, pod_index)
    ELSE IF match_id \notin MatchIds THEN "404"
    ELSE "ok"

\* match.event_id / event_round set and saved.
LinkMatch(ms, match_id, round_num) ==
    [ms EXCEPT ![match_id] = [event_id |-> "e1", event_round |-> round_num]]

\* player_decks entries added for the match's players that have none yet.
RECURSIVE FillDecks(_, _)
FillDecks(player_decks, mps) ==
    IF mps = <<>> THEN player_decks
    ELSE LET mp == Head(mps)
             have == \E e \in player_decks : e.player_id = mp.player_id
         IN  FillDecks(IF have THEN player_decks
                       ELSE player_decks \cup
                            {[player_id |-> mp.player_id, deck_name |-> mp.deck_name]},
                       Tail(mps))

\* Mutant: head-to-head events scored like table events.
RoundResults_Mut(ev, match, is_alt_win) == calculate_match_points(match, is_alt_win)

RoundResults(ev, match, is_alt_win) ==
    IF ev.event_type = "draft" THEN DraftResults(match)
    ELSE calculate_match_points(match, is_alt_win)

\* Mutant: any() written for all().
AllPodsCompleted_Mut(round) ==
    \E i \in DOMAIN round.pods : round.pods[i].match_status = "completed"

AllPodsCompleted(round) ==
    \A i \in DOMAIN round.pods : round.pods[i].match_status = "completed"

complete_pod_match_save(ev, round_num, pod_index, match_id, is_alt_win) ==
    LET r == FindRound(ev, round_num)
        p == FindPod(ev.rounds[r], pod_index)
        match == MatchStore[match_id]
        round_results == RoundResults(ev, match, is_alt_win)
        ev1 == [ev EXCEPT
                  !.rounds[r].pods[p].match_id = match_id,
                  !.rounds[r].pods[p].match_status = "completed",
                  !.rounds[r].pods[p].player_decks = FillDecks(@, match.players),
                  !.rounds[r].results = @ \o round_results,
                  !.standings = ApplyResults(@, round_results,
                                             match.winner_player_id, round_num)]
    IN  IF AllPodsCompleted(ev1.rounds[r])
        THEN [ev1 EXCEPT !.rounds[r].status = "completed"]
        ELSE ev1

\* ---- advance_round ----
\* Mutant: advance_round accepts a round that is still in progress.
AdvanceRoundOk_Mut(round) == round.status # "pending"

AdvanceRoundOk(round) == round.status = "completed"

AdvanceHasNext(ev) == ev.current_round + 1 <= ev.round_count

advance_round_code(ev, caller) ==
    IF ~IsCreator(ev, caller) THEN "403"
    ELSE IF ev.status # "active" THEN "400"
    ELSE IF FindRound(ev, ev.current_round) = 0 THEN "404"
    ELSE IF ~AdvanceRoundOk(ev.rounds[FindRound(ev, ev.current_round)]) THEN "400"
    ELSE IF ~AdvanceHasNext(ev) THEN "400"
    ELSE "ok"

CompletedRounds(ev) == SelectSeq(ev.rounds, LAMBDA r : r.status = "completed")

\* Mutant: table events seeded from the bottom of the standings.
NextRoundPods_Mut(ev, order) ==
    IF ev.event_type = "draft" THEN swiss_pair(order, CompletedRounds(ev))
    ELSE create_pods_from_player_list([i \in DOMAIN order |-> order[Len(order) + 1 - i]])

NextRoundPods(ev, order) ==
    IF ev.event_type = "draft" THEN swiss_pair(order, CompletedRounds(ev))
    ELSE create_pods_from_player_list(order)

\* Mutant: the next round gets its pods but keeps the status pending.
advance_round_save_Mut(ev, order) ==
    LET next_round_num == ev.current_round + 1
        n == FindRound(ev, next_round_num)
        ev1 == IF n = 0 THEN ev
               ELSE [ev EXCEPT !.rounds[n].pods = NextRoundPods(ev, order)]
    IN  [ev1 EXCEPT !.current_round = next_round_num]

advance_round_save(ev, order) ==
    LET next_round_num == ev.current_round + 1
        n == FindRound(ev, next_round_num)
        ev1 == IF n = 0 THEN ev
               ELSE [ev EXCEPT !.rounds[n].pods = NextRoundPods(ev, order),
                               !.rounds[n].status = "in_progress"]
    IN  [ev1 EXCEPT !.current_round = next_round_num]

\* ---- complete_tournament ----
\* Mutant: complete_tournament accepts a last round that is still in progress.
LastRoundOk_Mut(round) == round.status # "pending"

LastRoundOk(round) == round.status = "completed"

complete_tournament_code(ev, caller) ==
    IF ~IsCreator(ev, caller) THEN "403"
    ELSE IF ev.status # "active" THEN "400"
    ELSE IF FindRound(ev, ev.round_count) = 0 THEN "404"
    ELSE IF ~LastRoundOk(ev.rounds[FindRound(ev, ev.round_count)]) THEN "400"
    ELSE "ok"

\* Mutant: the status assignment of complete_tournament left out.
complete_tournament_save_Mut(ev) ==
    [ev EXCEPT !.completed_at = "utcnow"]

complete_tournament_save(ev) ==
    [ev EXCEPT !.status = "completed", !.completed_at = "utcnow"]

\* ---- set_pod_deck ----
\* Deck.get, then update_one({_id, status: "active"}, $set on the array-filtered
\* path): matched_count counts the documents the query matched.
set_pod_deck_code(ev, deck_id) ==
    IF deck_id \notin DOMAIN DeckStore THEN "404"
    ELSE IF ev.status # "active" THEN "404"
    ELSE "ok"

\* Mutant: the whole player_decks map is written instead of one key.
PutDeck_Mut(player_decks, player_id, deck_name) ==
    {[player_id |-> player_id, deck_name |-> deck_name]}

PutDeck(player_decks, player_id, deck_name) ==
    {e \in player_decks : e.player_id # player_id} \cup
        {[player_id |-> player_id, deck_name |-> deck_name]}

set_pod_deck_update(ev, round_num, pod_index, player_id, deck_id) ==
    [ev EXCEPT !.rounds =
        [i \in DOMAIN ev.rounds |->
            IF ev.rounds[i].round_number # round_num THEN ev.rounds[i]
            ELSE [ev.rounds[i] EXCEPT !.pods =
                    [j \in DOMAIN ev.rounds[i].pods |->
                        IF ev.rounds[i].pods[j].pod_index # pod_index
                        THEN ev.rounds[i].pods[j]
                        ELSE [ev.rounds[i].pods[j] EXCEPT !.player_decks =
                                PutDeck(@, player_id, DeckStore[deck_id].name)]]]]]

----------------------------------------------------------------------------
(* Spec: each request is served to completion *)

Idle == [pc |-> "idle"]

\* The parts of the state a specification does not exercise.
NoDeckCalls == deck_calls = <<>>
NoElo == pod_matches = <<>> /\ ratings = {} /\ history = <<>> /\ recalcs = <<>>
NoProbe == probe = [op |-> "none", done |-> FALSE]

NoLinks == [m \in MatchIds |-> [event_id |-> None, event_round |-> 0]]

Init ==
    /\ \E type \in EventTypes, round_count \in 1..MaxRounds :
            event = NewEvent(type, round_count)
    /\ matches = NoLinks
    /\ inflight = Idle
    /\ NoDeckCalls /\ NoElo /\ NoProbe

\* event.save() (and match.save()) of an accepted request.
Save(saved_event, saved_matches) ==
    /\ event' = saved_event
    /\ matches' = saved_matches
    /\ IF inflight = Idle
       THEN UNCHANGED inflight
       ELSE /\ inflight.overtaken < MaxOverlap
            /\ inflight' = [inflight EXCEPT !.overtaken = @ + 1]
    /\ UNCHANGED <<deck_calls, elo_vars, probe>>

\* raise HTTPException: nothing is written.
Reject == UNCHANGED vars

StartTournament ==
    \E caller \in Callers :
        IF start_tournament_code(event, caller) = "ok"
        THEN \E shuffled \in ShuffleOutcomes :
                Save(start_tournament_save(event, shuffled), matches)
        ELSE Reject

StartPodMatch ==
    \E round_num \in RoundNums, pod_index \in PodIndexes, caller \in Callers :
        IF start_pod_match_code(event, round_num, pod_index, caller) = "ok"
        THEN Save(start_pod_match_save(event, round_num, pod_index), matches)
        ELSE Reject

CancelPodMatch ==
    \E round_num \in RoundNums, pod_index \in PodIndexes :
        IF cancel_pod_match_code(event, round_num, pod_index) = "ok"
        THEN Save(cancel_pod_match_save(event, round_num, pod_index), matches)
        ELSE Reject

CompletePodMatch ==
    \E round_num \in RoundNums, pod_index \in PodIndexes, match_id \in MatchIdInputs :
        IF complete_pod_match_code(event, round_num, pod_index, match_id) = "ok"
        THEN \E is_alt_win \in BOOLEAN :
                Save(complete_pod_match_save(event, round_num, pod_index,
                                             match_id, is_alt_win),
                     LinkMatch(matches, match_id, round_num))
        ELSE Reject

AdvanceRound ==
    \E caller \in Callers :
        IF advance_round_code(event, caller) = "ok"
        THEN \E order \in SortedOrders(event.standings) :
                Save(advance_round_save(event, order), matches)
        ELSE Reject

CompleteTournament ==
    \E caller \in Callers :
        IF complete_tournament_code(event, caller) = "ok"
        THEN Save(complete_tournament_save(event), matches)
        ELSE Reject

SetPodDeck ==
    \E round_num \in DeckRounds, pod_index \in DeckPods,
       player_id \in DeckPlayers, deck_id \in DeckIds :
        IF set_pod_deck_code(event, deck_id) = "ok"
        THEN Save(set_pod_deck_update(event, round_num, pod_index, player_id, deck_id),
                  matches)
        ELSE Reject

Next ==
    \/ StartTournament
    \/ StartPodMatch
    \/ CancelPodMatch
    \/ CompletePodMatch
    \/ AdvanceRound
    \/ CompleteTournament
    \/ SetPodDeck

Spec == Init /\ [][Next]_vars

\* The same serial system with its scheduling assumptions: participants keep
\* sending start and complete requests for the pods of the current round and
\* the organizer keeps sending advance and complete requests, so an accepted
\* request of one of these four kinds that stays possible is eventually
\* served.  Nothing is assumed about cancel, set-deck or start-tournament
\* requests.  A rejected request leaves vars unchanged, so only accepted
\* requests count as steps of WF_vars.

\* Pods of the current round that complete_pod_match still accepts.
OpenPods(ev) ==
    IF ev.current_round \in DOMAIN ev.rounds
    THEN {i \in DOMAIN ev.rounds[ev.current_round].pods :
              CompletePodOk(ev.rounds[ev.current_round].pods[i])}
    ELSE {}

\* The states in which some complete request is accepted.
CompleteEnabled == event.status = "active" /\ OpenPods(event) # {}

\* CompleteEnabled is ENABLED <<CompletePodMatch>>_vars (an invariant of Spec).
CompleteEnabledIsEnabled == CompleteEnabled <=> ENABLED <<CompletePodMatch>>_vars

\* WF_vars(CompletePodMatch), written out with CompleteEnabled for its
\* ENABLED <<CompletePodMatch>>_vars.
CompleteFair == []<>(~CompleteEnabled) \/ []<><<CompletePodMatch>>_vars

Fairness ==
    /\ WF_vars(StartPodMatch)
    /\ CompleteFair
    /\ WF_vars(AdvanceRound)
    /\ WF_vars(CompleteTournament)

SpecLive == Init /\ [][Next]_vars /\ Fairness

----------------------------------------------------------------------------
(* SpecConc: a handler suspended between its awaits.  The checks that      *)
(* follow `event = await Event.get(event_id)` run without another await,   *)
(* so a rejected request never waits; an accepted one waits at             *)
(* `await event.save()` (complete_pod_match: at Match.get, match.save and  *)
(* event.save) holding the document it loaded.  Event.Settings has         *)
(* use_revision = False: save() writes that document back unconditionally. *)

Suspended(op, round_num, pod_index, match_id, pc) ==
    [pc |-> pc, op |-> op, round_num |-> round_num, pod_index |-> pod_index,
     match_id |-> match_id, ev |-> event, overtaken |-> 0]

\* Event.get and the checks on the loaded document.
Load(op, code, round_num, pod_index, match_id, pc) ==
    /\ inflight = Idle
    /\ IF code = "ok"
       THEN inflight' = Suspended(op, round_num, pod_index, match_id, pc)
       ELSE UNCHANGED inflight
    /\ UNCHANGED <<event, matches, deck_calls, elo_vars, probe>>

LoadStartTournament ==
    \E caller \in Callers :
        Load("start", start_tournament_code(event, caller), 0, 0, None, "save_event")

LoadStartPodMatch ==
    \E round_num \in RoundNums, pod_index \in PodIndexes, caller \in Callers :
        Load("start_match", start_pod_match_code(event, round_num, pod_index, caller),
             round_num, pod_index, None, "save_event")

LoadCancelPodMatch ==
    \E round_num \in RoundNums, pod_index \in PodIndexes :
        Load("cancel_match", cancel_pod_match_code(event, round_num, pod_index),
             round_num, pod_index, None, "save_event")

\* Match.get reads a document whose content no request of the model changes, so
\* it is taken together with the load; the handler then waits at match.save().
LoadCompletePodMatch ==
    \E round_num \in RoundNums, pod_index \in PodIndexes, match_id \in MatchIdInputs :
        Load("complete_match",
             complete_pod_match_code(event, round_num, pod_index, match_id),
             round_num, pod_index, match_id, "save_match")

LoadAdvanceRound ==
    \E caller \in Callers :
        Load("advance", advance_round_code(event, caller), 0, 0, None, "save_event")

LoadCompleteTournament ==
    \E caller \in Callers :
        Load("complete", complete_tournament_code(event, caller), 0, 0, None, "save_event")

\* await match.save()
SaveMatch ==
    /\ inflight.pc = "save_match"
    /\ matches' = LinkMatch(matches, inflight.match_id, inflight.round_num)
    /\ inflight' = [inflight EXCEPT !.pc = "save_event"]
    /\ UNCHANGED <<event, deck_calls, elo_vars, probe>>

\* The document an accepted request saves, computed from the one it loaded.
SavedEvents(req) ==
    CASE req.op = "start" ->
            {start_tournament_save(req.ev, shuffled) : shuffled \in ShuffleOutcomes}
      [] req.op = "start_match" ->
            {start_pod_match_save(req.ev, req.round_num, req.pod_index)}
      [] req.op = "cancel_match" ->
            {cancel_pod_match_save(req.ev, req.round_num, req.pod_index)}
      [] req.op = "complete_match" ->
            {complete_pod_match_save(req.ev, req.round_num, req.pod_index,
                                     req.match_id, is_alt_win) : is_alt_win \in BOOLEAN}
      [] req.op = "advance" ->
            {advance_round_save(req.ev, order) : order \in SortedOrders(req.ev.standings)}
      [] req.op = "complete" ->
            {complete_tournament_save(req.ev)}

\* await event.save()
SaveEvent ==
    /\ inflight.pc = "save_event"
    /\ event' \in SavedEvents(inflight)
    /\ inflight' = Idle
    /\ UNCHANGED <<matches, deck_calls, elo_vars, probe>>

NextConc ==
    \/ Next
    \/ LoadStartTournament
    \/ LoadStartPodMatch
    \/ LoadCancelPodMatch
    \/ LoadCompletePodMatch
    \/ LoadAdvanceRound
    \/ LoadCompleteTournament
    \/ SaveMatch
    \/ SaveEvent

\* A table-format event of up to MaxRounds rounds, or a head-to-head event of
\* one round (two pods).
InitConc ==
    /\ \/ \E round_count \in 1..MaxRounds : event = NewEvent("tournament", round_count)
       \/ event = NewEvent("draft", 1)
    /\ matches = NoLinks
    /\ inflight = Idle
    /\ NoDeckCalls /\ NoElo /\ NoProbe

SpecConc == InitConc /\ [][NextConc]_vars

----------------------------------------------------------------------------
(* SpecDeck: two set_pod_deck requests cut at their awaits *)

\* The two requests; each is sent once.
DeckCallIds == {1, 2}
DeckCallPlayers == {"p1", "p2"}
DeckCallPods == {0, 1}

NewDeckCall == [pc |-> "new"]

\* deck = await Deck.get(...): 404 without a deck, else the handler goes on to
\* the update with the deck it read.
GetDeck(c) ==
    /\ deck_calls[c].pc = "new"
    /\ \E player_id \in DeckCallPlayers, deck_id \in DeckIds, pod_index \in DeckCallPods :
            deck_calls' = [deck_calls EXCEPT ![c] =
                [pc |-> IF deck_id \in DOMAIN DeckStore THEN "update" ELSE "done",
                 code |-> IF deck_id \in DOMAIN DeckStore THEN "pending" ELSE "404",
                 player_id |-> player_id, deck_id |-> deck_id,
                 round_num |-> 1, pod_index |-> pod_index]]
    /\ UNCHANGED <<event, matches, inflight, elo_vars, probe>>

\* await collection.update_one(...): one atomic write on the stored document;
\* matched_count == 0 (no active event of that id) is the 404.
UpdateDeck(c) ==
    /\ deck_calls[c].pc = "update"
    /\ LET call == deck_calls[c]
           code == set_pod_deck_code(event, call.deck_id)
       IN  /\ deck_calls' = [deck_calls EXCEPT ![c].pc = "done", ![c].code = code]
           /\ event' = IF code = "ok"
                       THEN set_pod_deck_update(event, call.round_num, call.pod_index,
                                                call.player_id, call.deck_id)
                       ELSE event
    /\ UNCHANGED <<matches, inflight, elo_vars, probe>>

NextDeck == \E c \in DeckCallIds : GetDeck(c) \/ UpdateDeck(c)

\* An event in setup, or a started one (table format: one pod; head-to-head:
\* two pods).
InitDeck ==
    /\ \/ event = NewEvent("tournament", 1)
       \/ \E type \in EventTypes :
            event = start_tournament_save(NewEvent(type, 1), RegisteredPlayers)
    /\ matches = NoLinks
    /\ inflight = Idle
    /\ deck_calls = [c \in DeckCallIds |-> NewDeckCall]
    /\ NoElo /\ NoProbe

SpecDeck == InitDeck /\ [][NextDeck]_vars

----------------------------------------------------------------------------
(* elo_calculator.py.  Ratings and deltas are floats with one decimal in the *)
(* code (1000.0 plus deltas rounded to one decimal); here they are integers  *)
(* counting tenths of a point.  Expected scores count millionths.            *)

K_FACTOR == 32

\* DEFAULT_ELO = 1000.0, in tenths.
DEFAULT_ELO == 10000

\* n < 3: not rated.
MinRatedPlayers == 3

\* Largest number of players of a match (create_match, Match.players).
MaxMatchPlayers == 6

Million == 1000000

\* 1 / (1 + 10 ** (d / 400)) in millionths for d = 0, 50, 100, ... points.
ExpectedTable ==
    <<500000, 428537, 359935, 296615, 240253, 191682,
      150980, 117662, 90909, 69758, 53240, 40463,
      30653, 23164, 17472, 13160, 9901, 7443>>

TableStep == 500

Abs(x) == IF x < 0 THEN 0 - x ELSE x

\* Expected score against an opponent rated `diff` tenths higher (diff >= 0):
\* the table value, interpolated linearly between two table points and flat
\* beyond the last one.
ExpectedAbove(diff) ==
    LET k == diff \div TableStep
        frac == diff % TableStep
    IN  IF k + 1 >= Len(ExpectedTable) THEN ExpectedTable[Len(ExpectedTable)]
        ELSE ExpectedTable[k + 1]
             - ((ExpectedTable[k + 1] - ExpectedTable[k + 2]) * frac) \div TableStep

\* calculate_expected_score: 1 / (1 + math.pow(10, (opponent_elo - player_elo) / 400))
calculate_expected_score(player_elo, opponent_elo) ==
    IF opponent_elo >= player_elo THEN ExpectedAbove(opponent_elo - player_elo)
    ELSE Million - ExpectedAbove(player_elo - opponent_elo)

\* round(a / b) for b > 0, ties to the even neighbour.
RoundDiv(a, b) ==
    LET q == a \div b
        r == a % b
    IN  IF 2 * r < b THEN q
        ELSE IF 2 * r > b THEN q + 1
        ELSE IF q % 2 = 0 THEN q ELSE q + 1

\* Mutant: two losers each score a win against the other.
ActualScore_Mut(player_id, opponent_id, winner_id) ==
    IF opponent_id = winner_id THEN 0 ELSE Million

\* actual score of player against opponent, in millionths.
ActualScore(player_id, opponent_id, winner_id) ==
    IF player_id = winner_id THEN Million
    ELSE IF opponent_id = winner_id THEN 0
    ELSE Million \div 2

\* Sum over the opponents (entries with another id) of actual - expected.
RECURSIVE PairSum(_, _, _, _)
PairSum(player_elos, i, j, winner_id) ==
    IF j > Len(player_elos) THEN 0
    ELSE (IF player_elos[j][1] = player_elos[i][1] THEN 0
          ELSE ActualScore(player_elos[i][1], player_elos[j][1], winner_id)
               - calculate_expected_score(player_elos[i][2], player_elos[j][2]))
         + PairSum(player_elos, i, j + 1, winner_id)

\* total_change of entry i, unrounded, as the numerator over
\* (n - 1) * Million * 10 tenths: K_FACTOR / (n - 1) * sum(actual - expected).
TotalChange(player_elos, i, winner_id) ==
    K_FACTOR * 10 * PairSum(player_elos, i, 1, winner_id)

\* The ids of elo_changes in insertion order (first appearance in player_elos).
ChangeKeys(player_elos) ==
    LET firsts == SelectSeq([i \in DOMAIN player_elos |-> i],
                     LAMBDA i : \A j \in 1..(i - 1) : player_elos[j][1] # player_elos[i][1])
    IN  [k \in DOMAIN firsts |-> player_elos[firsts[k]][1]]

\* calculate_multiplayer_elo_changes: {} below three entries; else, per id, the
\* rounded total of the last entry carrying that id (a dict assignment).
\* "if n < 3: return {}"
TooFew_Mut(n) == n < MinRatedPlayers - 1

TooFew(n) == n < MinRatedPlayers

calculate_multiplayer_elo_changes(player_elos, winner_id) ==
    LET n == Len(player_elos)
        ids == IF TooFew(n) THEN {} ELSE {player_elos[i][1] : i \in DOMAIN player_elos}
        last(pid) == CHOOSE i \in DOMAIN player_elos :
                        /\ player_elos[i][1] = pid
                        /\ \A j \in DOMAIN player_elos : player_elos[j][1] = pid => j <= i
    IN  [pid \in ids |->
            RoundDiv(TotalChange(player_elos, last(pid), winner_id), (n - 1) * Million)]

----------------------------------------------------------------------------
(* elo_service.py: ratings and history of one playgroup *)

\* The playgroup (pod) whose ratings are modelled; a match outside any
\* playgroup has pod_id None.
ThePod == "pod1"

\* PlayerEloRating with its defaults.
PlayerEloRating(player_id) ==
    [player_id |-> player_id, current_elo |-> DEFAULT_ELO, peak_elo |-> DEFAULT_ELO,
     lowest_elo |-> DEFAULT_ELO, games_rated |-> 0, last_elo_change |-> 0]

EloHistoryEntry(player_id, match_id, elo_before, elo_after, elo_change) ==
    [player_id |-> player_id, match_id |-> match_id, elo_before |-> elo_before,
     elo_after |-> elo_after, elo_change |-> elo_change]

Max(a, b) == IF a >= b THEN a ELSE b

HasRating(rs, player_id) == \E r \in rs : r.player_id = player_id

\* PlayerEloRating.find_one(player_id, pod_id)
FindRating(rs, player_id) == CHOOSE r \in rs : r.player_id = player_id

\* get_or_create_player_elo: insert the defaults when there is no document.
get_or_create_player_elo(rs, player_id) ==
    IF HasRating(rs, player_id) THEN rs ELSE rs \cup {PlayerEloRating(player_id)}

RECURSIVE CreateRatings(_, _)
CreateRatings(rs, players) ==
    IF players = <<>> THEN rs
    ELSE CreateRatings(get_or_create_player_elo(rs, Head(players).player_id), Tail(players))

\* Mutant: games_rated is not counted up.
ApplyChange_Mut(st, player_id, change, match_id) ==
    IF ~HasRating(st.ratings, player_id) THEN st
    ELSE LET rating == FindRating(st.ratings, player_id)
             old_elo == rating.current_elo
             new_elo == old_elo + change
             saved == [rating EXCEPT !.current_elo = new_elo,
                                     !.last_elo_change = change,
                                     !.peak_elo = Max(@, new_elo),
                                     !.lowest_elo = Min(@, new_elo)]
         IN  [ratings |-> (st.ratings \ {rating}) \cup {saved},
              history |-> Append(st.history,
                                 EloHistoryEntry(player_id, match_id, old_elo, new_elo,
                                                 change))]

\* One turn of "for player_id, change in changes.items()": the rating is
\* updated and saved, and a history entry inserted.
ApplyChange(st, player_id, change, match_id) ==
    IF ~HasRating(st.ratings, player_id) THEN st
    ELSE LET rating == FindRating(st.ratings, player_id)
             old_elo == rating.current_elo
             new_elo == old_elo + change
             saved == [rating EXCEPT !.current_elo = new_elo,
                                     !.last_elo_change = change,
                                     !.games_rated = @ + 1,
                                     !.peak_elo = Max(@, new_elo),
                                     !.lowest_elo = Min(@, new_elo)]
         IN  [ratings |-> (st.ratings \ {rating}) \cup {saved},
              history |-> Append(st.history,
                                 EloHistoryEntry(player_id, match_id, old_elo, new_elo,
                                                 change))]

RECURSIVE ApplyChanges(_, _, _, _)
ApplyChanges(st, keys, changes, match_id) ==
    IF keys = <<>> THEN st
    ELSE ApplyChanges(ApplyChange(st, Head(keys), changes[Head(keys)], match_id),
                      Tail(keys), changes, match_id)

\* The (player_id, current_elo) list process_match_elo builds.
PlayerElos(rs, match) ==
    [i \in DOMAIN match.players |->
        <<match.players[i].player_id, FindRating(rs, match.players[i].player_id).current_elo>>]

\* process_match_elo on the stored ratings and history st.
process_match_elo(st, match) ==
    IF match.pod_id = None THEN st
    ELSE LET created == CreateRatings(st.ratings, match.players)
             player_elos == PlayerElos(created, match)
             changes == calculate_multiplayer_elo_changes(player_elos, match.winner_player_id)
             keys == IF DOMAIN changes = {} THEN <<>> ELSE ChangeKeys(player_elos)
         IN  ApplyChanges([ratings |-> created, history |-> st.history], keys, changes,
                          match.id)

\* The dict process_match_elo returns.
ProcessChanges(st, match) ==
    IF match.pod_id = None THEN <<>>
    ELSE calculate_multiplayer_elo_changes(
            PlayerElos(CreateRatings(st.ratings, match.players), match),
            match.winner_player_id)

\* Match.find(Match.pod_id == pod_id)
PodMatches(stored) ==
    SelectSeq(stored, LAMBDA m : ~m.deleted /\ m.pod_id = ThePod)

\* Mutant: .sort(Match.match_date), creation time breaking ties.
RECURSIVE SortByCreatedAt_Mut(_)
SortByCreatedAt_Mut(ms) ==
    IF ms = <<>> THEN <<>>
    ELSE LET first == CHOOSE i \in DOMAIN ms :
                        \A j \in DOMAIN ms :
                            \/ ms[i].match_date < ms[j].match_date
                            \/ ms[i].match_date = ms[j].match_date /\ i <= j
         IN  <<ms[first]>> \o SortByCreatedAt_Mut(RemoveAt(ms, first))

\* .sort(Match.created_at): ascending creation time (insertion sort).
RECURSIVE SortByCreatedAt(_)
SortByCreatedAt(ms) ==
    IF ms = <<>> THEN <<>>
    ELSE LET first == CHOOSE i \in DOMAIN ms :
                        \A j \in DOMAIN ms :
                            \/ ms[i].created_at < ms[j].created_at
                            \/ ms[i].created_at = ms[j].created_at /\ i <= j
         IN  <<ms[first]>> \o SortByCreatedAt(RemoveAt(ms, first))

\* Mutants: the delete of the ratings, of the history, left out.
DeleteRatings_Mut(rs) == rs
DeleteHistory_Mut(hs) == hs

\* PlayerEloRating.find(pod_id).delete() and EloHistoryEntry.find(pod_id).delete()
DeleteRatings(rs) == {}
DeleteHistory(hs) == <<>>

RECURSIVE Replay(_, _)
Replay(st, ms) ==
    IF ms = <<>> THEN st ELSE Replay(process_match_elo(st, Head(ms)), Tail(ms))

\* recalculate_pod_elo
recalculate_pod_elo(st, stored) ==
    Replay([ratings |-> DeleteRatings(st.ratings), history |-> DeleteHistory(st.history)],
           SortByCreatedAt(PodMatches(stored)))

----------------------------------------------------------------------------
(* routers/matches.py: create_match, update_match, delete_match *)

\* Members of the playgroup.
PodMembers == {"p1", "p2", "p3", "p4"}

\* MatchPlayer objects built from the request: is_winner needs both the
\* player id and the deck id to match; the elimination fields keep their
\* defaults.  elimination_orders is a dict (empty: none given).
MatchPlayers(pairs, winner_player_id, winner_deck_id, elimination_orders) ==
    [i \in DOMAIN pairs |->
        [player_id |-> pairs[i].player_id,
         deck_id |-> pairs[i].deck_id,
         deck_name |-> pairs[i].deck_id,
         elimination_order |->
            IF pairs[i].player_id \in DOMAIN elimination_orders
            THEN elimination_orders[pairs[i].player_id] ELSE NoOrder,
         is_winner |-> (pairs[i].player_id = winner_player_id
                        /\ pairs[i].deck_id = winner_deck_id),
         eliminated_by_player_id |-> None,
         elimination_type |-> None]]

PairPlayerIds(pairs) == {pairs[i].player_id : i \in DOMAIN pairs}

\* Player.get / Deck.get find a document for these ids only.
KnownPlayers == {"p1", "p2", "p3", "p4", "p5", "p6"}
KnownDecks == {"d1", "d2", "d3", "d4", "d5", "d6"}

\* Some pair of the request names a player or a deck that does not exist.
UnknownPair(pairs) ==
    \E i \in DOMAIN pairs :
        pairs[i].player_id \notin KnownPlayers \/ pairs[i].deck_id \notin KnownDecks

create_match_code(request) ==
    IF Len(request.player_deck_pairs) < 3 THEN "400"
    ELSE IF Len(request.player_deck_pairs) > MaxMatchPlayers THEN "400"
    ELSE IF UnknownPair(request.player_deck_pairs) THEN "404"
    ELSE IF request.winner_player_id \notin PairPlayerIds(request.player_deck_pairs) THEN "400"
    ELSE IF request.pod_id # None /\ ~(PairPlayerIds(request.player_deck_pairs) \subseteq PodMembers)
    THEN "400"
    ELSE "ok"

\* Mutant: later documents get earlier creation times.
NewMatch_Mut(request, id) ==
    [id |-> id, created_at |-> 0 - id, deleted |-> FALSE,
     pod_id |-> request.pod_id,
     match_date |-> request.match_date,
     players |-> MatchPlayers(request.player_deck_pairs, request.winner_player_id,
                              request.winner_deck_id, request.elimination_orders),
     winner_player_id |-> request.winner_player_id,
     winner_deck_id |-> request.winner_deck_id]

\* The Match document create_match inserts; created_at orders the documents.
NewMatch(request, id) ==
    [id |-> id, created_at |-> id, deleted |-> FALSE,
     pod_id |-> request.pod_id,
     match_date |-> request.match_date,
     players |-> MatchPlayers(request.player_deck_pairs, request.winner_player_id,
                              request.winner_deck_id, request.elimination_orders),
     winner_player_id |-> request.winner_player_id,
     winner_deck_id |-> request.winner_deck_id]

\* What is left of a deleted document: its id and creation time are not
\* given out again.
Tombstone(match) ==
    [id |-> match.id, created_at |-> match.created_at, deleted |-> TRUE,
     pod_id |-> None, match_date |-> 0, players |-> <<>>,
     winner_player_id |-> None, winner_deck_id |-> None]

\* Match.get(match_id)
MatchExists(stored, id) == id \in DOMAIN stored /\ ~stored[id].deleted

\* update_match: the winner the request leaves in force.
UpdatedWinner(match, request) ==
    IF request.winner_player_id # None THEN request.winner_player_id
    ELSE match.winner_player_id

UpdatedWinnerDeck(match, request) ==
    IF request.winner_deck_id # None THEN request.winner_deck_id
    ELSE match.winner_deck_id

update_match_code(match, request) ==
    IF request.has_pairs
    THEN IF Len(request.player_deck_pairs) < 3 THEN "400"
         ELSE IF Len(request.player_deck_pairs) > MaxMatchPlayers THEN "400"
         ELSE IF UnknownPair(request.player_deck_pairs) THEN "404"
         ELSE IF UpdatedWinner(match, request) \notin PairPlayerIds(request.player_deck_pairs)
         THEN "400"
         ELSE "ok"
    ELSE IF request.winner_player_id # None \/ request.winner_deck_id # None
    THEN IF UpdatedWinner(match, request) \notin {match.players[i].player_id :
                                                    i \in DOMAIN match.players}
         THEN "400" ELSE "ok"
    ELSE "ok"

\* The document update_match saves (match_date 0: not in the request).
UpdatedMatch(match, request) ==
    LET dated == IF request.match_date # 0
                 THEN [match EXCEPT !.match_date = request.match_date] ELSE match
        w == UpdatedWinner(match, request)
        wd == UpdatedWinnerDeck(match, request)
    IN  IF request.has_pairs
        THEN [dated EXCEPT !.players = MatchPlayers(request.player_deck_pairs, w, wd,
                                                    request.elimination_orders),
                           !.winner_player_id = w,
                           !.winner_deck_id = wd]
        ELSE IF request.winner_player_id # None \/ request.winner_deck_id # None
        THEN [dated EXCEPT !.winner_player_id = w,
                           !.winner_deck_id = wd,
                           !.players = [i \in DOMAIN dated.players |->
                                [dated.players[i] EXCEPT !.is_winner =
                                    (dated.players[i].player_id = w
                                     /\ dated.players[i].deck_id = wd)]]]
        ELSE dated

----------------------------------------------------------------------------
(* SpecElo: match requests of one playgroup, each served to completion *)

\* Matches created in one behaviour.
MaxMatches == 2

\* Player ids of the matches.
EloPlayers == <<"p1", "p2", "p3", "p4", "p5", "p6">>

OwnDecks == <<"d1", "d2", "d3", "d4", "d5", "d6">>

\* The deck a player brings.
DeckOf(player_id) == OwnDecks[CHOOSE i \in DOMAIN EloPlayers : EloPlayers[i] = player_id]

Pairs(roster) == [i \in DOMAIN roster |-> [player_id |-> roster[i], deck_id |-> DeckOf(roster[i])]]

\* Player lists of the requests (the two-player one is refused).
Rosters == {<<"p1", "p2", "p3">>, <<"p1", "p2", "p3", "p4">>, <<"p1", "p2">>}
Winners == {"p1", "p2", "p4"}
MatchDates == {1, 2}

\* Pair lists that name a player, or a deck, that does not exist.
UnknownPairs ==
    {<<[player_id |-> "p1", deck_id |-> "d1"], [player_id |-> "p2", deck_id |-> "d2"],
       [player_id |-> "pX", deck_id |-> "d3"]>>,
     <<[player_id |-> "p1", deck_id |-> "d1"], [player_id |-> "p2", deck_id |-> "dX"],
       [player_id |-> "p3", deck_id |-> "d3"]>>}

CreateRequests ==
    {[player_deck_pairs |-> Pairs(roster), winner_player_id |-> w,
      winner_deck_id |-> DeckOf(w), match_date |-> d, elimination_orders |-> <<>>,
      pod_id |-> pod] :
        roster \in Rosters, w \in Winners, d \in MatchDates, pod \in {ThePod, None}}
    \cup
    {[player_deck_pairs |-> pairs, winner_player_id |-> "p1", winner_deck_id |-> "d1",
      match_date |-> 1, elimination_orders |-> <<>>, pod_id |-> ThePod] :
        pairs \in UnknownPairs}

UpdateRequests ==
    {[has_pairs |-> FALSE, player_deck_pairs |-> <<>>, winner_player_id |-> w,
      winner_deck_id |-> IF w = None THEN None ELSE DeckOf(w), match_date |-> d,
      elimination_orders |-> <<>>] :
        w \in Winners \cup {None}, d \in MatchDates \cup {0}}
    \cup
    {[has_pairs |-> TRUE, player_deck_pairs |-> Pairs(roster), winner_player_id |-> w,
      winner_deck_id |-> IF w = None THEN None ELSE DeckOf(w), match_date |-> 0,
      elimination_orders |-> <<>>] :
        roster \in Rosters, w \in {"p2", None}}
    \cup
    {[has_pairs |-> TRUE, player_deck_pairs |-> pairs, winner_player_id |-> None,
      winner_deck_id |-> None, match_date |-> 2, elimination_orders |-> <<>>] :
        pairs \in UnknownPairs}

EloState == [ratings |-> ratings, history |-> history]

\* The ratings and history a request leaves behind.
StoreElo(st) ==
    /\ ratings' = st.ratings
    /\ history' = st.history

EloFrame == UNCHANGED <<event_vars, deck_calls, recalcs, probe>>

\* The stored documents of the playgroup as one value.
Db == [pod_matches |-> pod_matches, ratings |-> ratings, history |-> history]

StoreDb(db) ==
    /\ pod_matches' = db.pod_matches
    /\ StoreElo(db)

\* Mutant: the match is inserted before the request is validated.
create_match_db_Mut(db, request) ==
    LET match == NewMatch(request, Len(db.pod_matches) + 1)
        inserted == [db EXCEPT !.pod_matches = Append(@, match)]
    IN  IF create_match_code(request) = "ok"
        THEN [pod_matches |-> inserted.pod_matches,
              ratings |-> process_match_elo(db, match).ratings,
              history |-> process_match_elo(db, match).history]
        ELSE inserted

\* What create_match leaves in the store: insert, then process_match_elo if the
\* match has a pod; nothing when the request is refused.
create_match_db(db, request) ==
    IF create_match_code(request) = "ok"
    THEN LET match == NewMatch(request, Len(db.pod_matches) + 1)
             st == process_match_elo([ratings |-> db.ratings, history |-> db.history], match)
         IN  [pod_matches |-> Append(db.pod_matches, match),
              ratings |-> st.ratings, history |-> st.history]
    ELSE db

\* The response code of PUT /matches/{id}.
update_match_response(db, id, request) ==
    IF ~MatchExists(db.pod_matches, id) THEN "404"
    ELSE update_match_code(db.pod_matches[id], request)

\* What update_match leaves in the store: save, then recalculate_pod_elo if the
\* match has a pod; nothing when the request is refused.
update_match_db(db, id, request) ==
    IF update_match_response(db, id, request) = "ok"
    THEN LET saved == [db.pod_matches EXCEPT ![id] = UpdatedMatch(@, request)]
             st == IF db.pod_matches[id].pod_id # None
                   THEN recalculate_pod_elo([ratings |-> db.ratings, history |-> db.history],
                                            saved)
                   ELSE [ratings |-> db.ratings, history |-> db.history]
         IN  [pod_matches |-> saved, ratings |-> st.ratings, history |-> st.history]
    ELSE db

\* POST /matches
CreateMatchReq(request) ==
    /\ Len(pod_matches) < MaxMatches
    /\ StoreDb(create_match_db(Db, request))
    /\ EloFrame

CreateMatch == \E request \in CreateRequests : CreateMatchReq(request)

\* PUT /matches/{id}
UpdateMatchReq(id, request) ==
    /\ StoreDb(update_match_db(Db, id, request))
    /\ EloFrame

UpdateMatch == \E id \in 1..MaxMatches, request \in UpdateRequests : UpdateMatchReq(id, request)

\* DELETE /matches/{id}: delete, then recalculate_pod_elo if the match had a pod.
DeleteMatchReq(id) ==
    /\ IF MatchExists(pod_matches, id)
       THEN LET saved == [pod_matches EXCEPT ![id] = Tombstone(@)]
            IN  /\ pod_matches' = saved
                /\ IF pod_matches[id].pod_id # None
                   THEN StoreElo(recalculate_pod_elo(EloState, saved))
                   ELSE UNCHANGED <<ratings, history>>
       ELSE UNCHANGED <<pod_matches, ratings, history>>
    /\ EloFrame

DeleteMatch == \E id \in 1..MaxMatches : DeleteMatchReq(id)

NextElo ==
    \/ CreateMatch
    \/ UpdateMatch
    \/ DeleteMatch

InitElo ==
    /\ event = NewEvent("tournament", 1)
    /\ matches = NoLinks
    /\ inflight = Idle
    /\ NoDeckCalls /\ NoElo /\ NoProbe

SpecElo == InitElo /\ [][NextElo]_vars

----------------------------------------------------------------------------
(* SpecEloConc: two requests that recalculate the playgroup, cut at the awaits *)
(* of recalculate_pod_elo (process_match_elo is taken as one step; its own     *)
(* awaits allow further interleavings, none of which is needed here).          *)

RecalcIds == {1, 2}

\* The matches of the playgroup stored when the requests arrive.
StoredMatch(id, roster, w) ==
    NewMatch([player_deck_pairs |-> Pairs(roster), winner_player_id |-> w,
              winner_deck_id |-> DeckOf(w), match_date |-> 1,
              elimination_orders |-> <<>>, pod_id |-> ThePod], id)

StoredSets ==
    {<<StoredMatch(1, <<"p1", "p2", "p3">>, w1)>> : w1 \in {"p1", "p2"}}
    \cup
    {<<StoredMatch(1, <<"p1", "p2", "p3">>, w1),
       StoredMatch(2, <<"p1", "p2", "p3", "p4">>, w2)>> : w1 \in {"p1", "p2"}, w2 \in {"p2", "p4"}}

RecalcFrame == UNCHANGED <<event_vars, deck_calls, pod_matches, probe>>

\* update_match / delete_match reach "await recalculate_pod_elo(pod_id)".
BeginRecalc(t) ==
    /\ recalcs[t].pc = "idle"
    /\ recalcs' = [recalcs EXCEPT ![t].pc = "delete_ratings"]
    /\ UNCHANGED <<ratings, history>>
    /\ RecalcFrame

\* await PlayerEloRating.find(...).delete()
DeleteRatingsStep(t) ==
    /\ recalcs[t].pc = "delete_ratings"
    /\ ratings' = DeleteRatings(ratings)
    /\ recalcs' = [recalcs EXCEPT ![t].pc = "delete_history"]
    /\ UNCHANGED history
    /\ RecalcFrame

\* await EloHistoryEntry.find(...).delete()
DeleteHistoryStep(t) ==
    /\ recalcs[t].pc = "delete_history"
    /\ history' = DeleteHistory(history)
    /\ recalcs' = [recalcs EXCEPT ![t].pc = "fetch"]
    /\ UNCHANGED ratings
    /\ RecalcFrame

\* matches = await Match.find(...).sort(Match.created_at).to_list()
FetchMatches(t) ==
    /\ recalcs[t].pc = "fetch"
    /\ recalcs' = [recalcs EXCEPT ![t].pc = "replay",
                                  ![t].todo = SortByCreatedAt(PodMatches(pod_matches))]
    /\ UNCHANGED <<ratings, history>>
    /\ RecalcFrame

\* for match in matches: await process_match_elo(match)
ProcessNext(t) ==
    /\ recalcs[t].pc = "replay"
    /\ recalcs[t].todo # <<>>
    /\ StoreElo(process_match_elo(EloState, Head(recalcs[t].todo)))
    /\ recalcs' = [recalcs EXCEPT ![t].todo = Tail(@)]
    /\ RecalcFrame

\* return len(matches)
FinishRecalc(t) ==
    /\ recalcs[t].pc = "replay"
    /\ recalcs[t].todo = <<>>
    /\ recalcs' = [recalcs EXCEPT ![t].pc = "done"]
    /\ UNCHANGED <<ratings, history>>
    /\ RecalcFrame

NextEloConc ==
    \E t \in RecalcIds :
        \/ BeginRecalc(t)
        \/ DeleteRatingsStep(t)
        \/ DeleteHistoryStep(t)
        \/ FetchMatches(t)
        \/ ProcessNext(t)
        \/ FinishRecalc(t)

\* Stored matches with the ratings and history their replay gives.
InitEloConc ==
    /\ event = NewEvent("tournament", 1)
    /\ matches = NoLinks
    /\ inflight = Idle
    /\ NoDeckCalls /\ NoProbe
    /\ pod_matches \in StoredSets
    /\ LET st == recalculate_pod_elo([ratings |-> {}, history |-> <<>>], pod_matches)
       IN  ratings = st.ratings /\ history = st.history
    /\ recalcs = [t \in RecalcIds |-> [pc |-> "idle", todo |-> <<>>]]

SpecEloConc == InitEloConc /\ [][NextEloConc]_vars

----------------------------------------------------------------------------
(* routers/analytics.py: get_pod_balance as a function of the winners of the *)
(* playgroup's matches, oldest first                                          *)

\* .sort(-Match.created_at).limit(30)
AnalysedMatches == 30
\* if len(matches) < 5: "Insufficient data"
MinAnalysed == 5

LastMatches(winners) ==
    SubSeq(winners, Max(1, Len(winners) - AnalysedMatches + 1), Len(winners))

\* Counter(match.winner_player_id for match in matches)
WinCounts(winners) ==
    [w \in Range(winners) |-> Cardinality({i \in DOMAIN winners : winners[i] = w})]

\* sum((i + 1) * w for i, w in enumerate(sorted(win_counts.values()))), with
\* `rank` = i + 1 of the smallest count still in `rest`.
RECURSIVE Cumulative(_, _, _)
Cumulative(win_counts, rest, rank) ==
    IF rest = {} THEN 0
    ELSE LET least == CHOOSE w \in rest : \A v \in rest : win_counts[w] <= win_counts[v]
         IN  rank * win_counts[least] + Cumulative(win_counts, rest \ {least}, rank + 1)

\* sum(win_counts.values())
RECURSIVE TotalWins(_, _)
TotalWins(win_counts, rest) ==
    IF rest = {} THEN 0
    ELSE LET w == CHOOSE v \in rest : TRUE
         IN  win_counts[w] + TotalWins(win_counts, rest \ {w})

\* "if n <= 1: gini = 0", hence round((1 - 0) * 100)
SingleWinnerScore(win_counts) == 100

\* round((1 - gini) * 100), where for n > 1
\* gini = 2 * cumulative / (n * total) - (n + 1) / n, so that
\* (1 - gini) * 100 = 100 * ((2 * n + 1) * total - 2 * cumulative) / (n * total).
BalanceScore(win_counts) ==
    LET n == Cardinality(DOMAIN win_counts)
        total == TotalWins(win_counts, DOMAIN win_counts)
        cumulative == Cumulative(win_counts, DOMAIN win_counts, 1)
    IN  IF n <= 1 THEN SingleWinnerScore(win_counts)
        ELSE RoundDiv(100 * ((2 * n + 1) * total - 2 * cumulative), n * total)

BalanceStatus(balance_score) ==
    IF balance_score >= 70 THEN "Healthy"
    ELSE IF balance_score >= 50 THEN "Uneven"
    ELSE "Dominated"

\* not "if len(matches) < 5"
EnoughMatches(analysed) == Len(analysed) >= MinAnalysed

\* get_pod_balance for a player with a current pod: score, status and the
\* details games_analyzed and unique_winners.
get_pod_balance(winners) ==
    LET analysed == LastMatches(winners)
        win_counts == WinCounts(analysed)
    IN  IF ~EnoughMatches(analysed)
        THEN [score |-> 0, status |-> "Insufficient data",
              games_analyzed |-> Len(analysed), unique_winners |-> 0]
        ELSE [score |-> BalanceScore(win_counts),
              status |-> BalanceStatus(BalanceScore(win_counts)),
              games_analyzed |-> Len(analysed),
              unique_winners |-> Cardinality(DOMAIN win_counts)]

----------------------------------------------------------------------------
(* SpecFun: the pure functions, called on arguments of bounded sets *)

\* Sample ratings, in tenths.
EloSamples == {9480, 10000, 10537}

\* Sequences of n sample ratings: every sample at tables of up to four players,
\* the two upper samples at larger tables.
EloTuples(n) == [1..n -> IF n <= 4 THEN EloSamples ELSE {10000, 10537}]

\* A call not yet made: the function's name and its arguments.
Args(op, args) == [op |-> op, args |-> args, done |-> FALSE, out |-> <<>>]

\* The call returns.
Return(op, out) ==
    /\ probe.op = op
    /\ ~probe.done
    /\ probe' = [probe EXCEPT !.done = TRUE, !.out = out]
    /\ UNCHANGED <<event_vars, deck_calls, elo_vars>>

EloChangesArgs ==
    UNION {{Args("elo_changes",
                 [player_elos |-> [i \in 1..n |-> <<EloPlayers[i], elos[i]>>],
                  winner_id |-> EloPlayers[w]]) :
                elos \in EloTuples(n), w \in 1..n} :
           n \in MinRatedPlayers..MaxMatchPlayers}

CallEloChanges ==
    Return("elo_changes",
           calculate_multiplayer_elo_changes(probe.args.player_elos, probe.args.winner_id))

\* Ratings and history a playgroup may hold before a match is processed:
\* nothing, or the outcome of one rated match.
PriorStates ==
    {[ratings |-> {}, history |-> <<>>]}
    \cup
    {recalculate_pod_elo([ratings |-> {}, history |-> <<>>],
                         <<StoredMatch(1, <<"p1", "p2", "p3">>, w)>>) : w \in {"p1", "p3"}}

\* Match documents of 2..4 players, in a playgroup or in none.
ProbeMatches ==
    {NewMatch([player_deck_pairs |-> Pairs(roster), winner_player_id |-> roster[w],
               winner_deck_id |-> DeckOf(roster[w]), match_date |-> 1,
               elimination_orders |-> <<>>, pod_id |-> pod], 2) :
        roster \in {<<"p1", "p2">>, <<"p3", "p4">>, <<"p1", "p2", "p3">>,
                    <<"p2", "p3", "p4">>, <<"p1", "p2", "p3", "p4">>},
        w \in 1..2, pod \in {ThePod, None}}

ProcessMatchArgs ==
    {Args("process_match", [st |-> st, match |-> m]) : st \in PriorStates, m \in ProbeMatches}

CallProcessMatch ==
    Return("process_match",
           [st |-> process_match_elo(probe.args.st, probe.args.match),
            changes |-> ProcessChanges(probe.args.st, probe.args.match)])

\* How a player left the game: not at all, killed by the next or the previous
\* player of the table, scooped, or scooped with a player named all the same.
Eliminations(i, n) ==
    {<<None, None>>, <<EloPlayers[(i % n) + 1], "kill">>,
     <<EloPlayers[((i + n - 2) % n) + 1], "kill">>, <<None, "scoop">>,
     <<EloPlayers[(i % n) + 1], "scoop">>}

PointOrders == {NoOrder, 1, 2, 3, 4}

\* Match documents of three players with every placement and elimination.
PointMatches ==
    {[id |-> 1, created_at |-> 1, deleted |-> FALSE, pod_id |-> None, match_date |-> 1,
      players |-> [i \in 1..3 |->
                     MP(EloPlayers[i], DeckOf(EloPlayers[i]), ords[i], ords[i] = 1,
                        elim[i][1], elim[i][2])],
      winner_player_id |-> "p1", winner_deck_id |-> DeckOf("p1")] :
        ords \in {<<a, b, c>> : a \in PointOrders, b \in PointOrders, c \in {NoOrder, 1, 5}},
        elim \in Eliminations(1, 3) \X Eliminations(2, 3)
                 \X {<<None, None>>, <<"p1", "kill">>, <<"p1", "scoop">>}}

MatchPointsArgs ==
    {Args("match_points", [match |-> m, is_alt_win |-> FALSE]) : m \in PointMatches}

CallMatchPoints ==
    Return("match_points", calculate_match_points(probe.args.match, probe.args.is_alt_win))

\* POST /matches bodies of three or four players: any winner, the winner's deck
\* or another deck as winner_deck_id, placements for some of the players.
PointRequests ==
    {[player_deck_pairs |-> Pairs(roster), winner_player_id |-> w, winner_deck_id |-> wd,
      match_date |-> 1, elimination_orders |-> eo, pod_id |-> None] :
        roster \in {<<"p1", "p2", "p3">>, <<"p1", "p2", "p3", "p4">>},
        w \in {"p1", "p3", "p5"},
        wd \in {DeckOf("p1"), DeckOf("p3")},
        eo \in {<<>>} \cup [{"p1", "p2", "p3"} -> {1, 2, 3}] \cup [{"p2"} -> {1, 4}]}

AltWinArgs ==
    {Args("alt_win_points", request) : request \in PointRequests}

\* create_match, then complete_pod_match's _calculate_match_points(match, True).
CallAltWinPoints ==
    Return("alt_win_points",
           [code |-> create_match_code(probe.args),
            match |-> NewMatch(probe.args, 1),
            results |-> IF create_match_code(probe.args) = "ok"
                        THEN calculate_match_points(NewMatch(probe.args, 1), TRUE)
                        ELSE <<>>])

\* Stored events a complete-match request may meet, each built by the handlers
\* from a new event of two rounds: round 1 just started; one of two pods of
\* round 1 completed; round 1 completed and round 2 paired.
Round1Events ==
    {start_tournament_save(NewEvent(type, 2), shuffled) :
        type \in EventTypes, shuffled \in {<<"p1", "p2", "p3", "p4">>, <<"p3", "p1", "p4", "p2">>}}

HalfEvents ==
    {complete_pod_match_save(ev, 1, 0, m, FALSE) :
        ev \in {e \in Round1Events : Len(e.rounds[1].pods) = 2}, m \in MatchIds}

Round1Done ==
    {complete_pod_match_save(ev, 1, 0, m, FALSE) :
        ev \in {e \in Round1Events : Len(e.rounds[1].pods) = 1}, m \in MatchIds}
    \cup
    {complete_pod_match_save(ev, 1, 1, m, FALSE) : ev \in HalfEvents, m \in MatchIds}

Round2Events ==
    UNION {{advance_round_save(ev, order) : order \in SortedOrders(ev.standings)} :
            ev \in Round1Done}

CompleteMatchArgs ==
    {Args("complete_match",
          [event |-> ev, round_num |-> r, pod_index |-> p, match_id |-> m, is_alt_win |-> a]) :
        ev \in Round1Events \cup HalfEvents \cup Round2Events,
        r \in RoundNums, p \in PodIndexes, m \in MatchIds \cup {"mX"}, a \in BOOLEAN}

\* complete_pod_match on the stored event of the call.
CallCompleteMatch ==
    LET a == probe.args
        code == complete_pod_match_code(a.event, a.round_num, a.pod_index, a.match_id)
    IN  Return("complete_match",
               [code |-> code,
                event |-> IF code = "ok"
                          THEN complete_pod_match_save(a.event, a.round_num, a.pod_index,
                                                       a.match_id, a.is_alt_win)
                          ELSE a.event])

\* Standings of the first n sample players with the given total_points.
StandingsOf(points) ==
    [i \in DOMAIN points |-> [StandingsEntry(EloPlayers[i]) EXCEPT !.total_points = points[i]]]

SwissStandings ==
    {StandingsOf(pts) : pts \in [1..2 -> {0, 1}] \cup [1..4 -> {0, 1}]}
    \cup {StandingsOf(<<1, 1, 0, 0, 0, 0>>), StandingsOf(<<2, 1, 1, 1, 0, 0>>)}

\* A completed round whose pods are the given player lists.
PlayedRound(n, tables) ==
    [EmptyRound(n) EXCEPT !.pods = [i \in DOMAIN tables |-> PodAssignment(i - 1, tables[i])],
                          !.status = "completed"]

\* Completed rounds in which every pair of the first 2, 4 or 6 players has met.
AllPlayed(n) ==
    IF n = 2 THEN <<PlayedRound(1, <<<<"p1", "p2">>>>)>>
    ELSE IF n = 4
    THEN <<PlayedRound(1, <<<<"p1", "p2">>, <<"p3", "p4">>>>),
           PlayedRound(2, <<<<"p1", "p3">>, <<"p2", "p4">>>>),
           PlayedRound(3, <<<<"p1", "p4">>, <<"p2", "p3">>>>)>>
    ELSE <<PlayedRound(1, <<<<"p1", "p2">>, <<"p3", "p4">>, <<"p5", "p6">>>>),
           PlayedRound(2, <<<<"p1", "p3">>, <<"p2", "p5">>, <<"p4", "p6">>>>),
           PlayedRound(3, <<<<"p1", "p4">>, <<"p2", "p6">>, <<"p3", "p5">>>>),
           PlayedRound(4, <<<<"p1", "p5">>, <<"p2", "p4">>, <<"p3", "p6">>>>),
           PlayedRound(5, <<<<"p1", "p6">>, <<"p2", "p3">>, <<"p4", "p5">>>>)>>

\* No round, the first round, all but the last, or all of them; a round of one
\* 4-player table is not a pairing.
PreviousRounds(n) ==
    {SubSeq(AllPlayed(n), 1, k) : k \in {0, 1, n - 2, n - 1}}
    \cup {<<PlayedRound(1, <<<<"p1", "p2", "p3", "p4">>>>)>>}

SwissArgs ==
    UNION {{Args("swiss_pair", [standings |-> st, order |-> order, previous_rounds |-> prev]) :
                order \in SortedOrders(st), prev \in PreviousRounds(Len(st))} :
           st \in SwissStandings}

CallSwissPair ==
    Return("swiss_pair", swiss_pair(probe.args.order, probe.args.previous_rounds))

\* create_event for the given player_ids: the event document it inserts.
EventOf(type, round_count, player_ids) ==
    [NewEvent(type, round_count) EXCEPT
        !.player_count = Len(player_ids),
        !.players = player_ids,
        !.standings = [i \in DOMAIN player_ids |-> StandingsEntry(player_ids[i])]]

EightPlayers == <<"p1", "p2", "p3", "p4", "p5", "p6", "p7", "p8">>

\* An 8-player event of three rounds after start, for two outcomes of the shuffle.
EightStarted(type) ==
    {start_tournament_save(EventOf(type, 3, EightPlayers), shuffled) :
        shuffled \in {EightPlayers, <<"p1", "p5", "p2", "p6", "p3", "p7", "p4", "p8">>}}

\* complete_pod_match for the pods 0, 1, ... of the current round in turn, pod i
\* with the match ms[i + 1] and the flag alts[i + 1].
RECURSIVE CompletePods(_, _, _, _)
CompletePods(ev, pod_index, ms, alts) ==
    IF pod_index >= Len(ms) THEN ev
    ELSE CompletePods(complete_pod_match_save(ev, ev.current_round, pod_index,
                                              ms[pod_index + 1], alts[pod_index + 1]),
                      pod_index + 1, ms, alts)

\* 8-player events whose round 1 is completed.
EightDone ==
    {CompletePods(ev, 0, <<ma, mb>>, <<aa, FALSE>>) :
        ev \in EightStarted("tournament"), ma \in MatchIds, mb \in MatchIds, aa \in BOOLEAN}
    \cup
    {CompletePods(ev, 0, ms, <<FALSE, FALSE, FALSE, FALSE>>) :
        ev \in {start_tournament_save(EventOf("draft", 3, EightPlayers), EightPlayers)},
        ms \in {<<"m1", "m1", "m1", "m1">>, <<"m1", "m2", "m1", "m2">>}}

\* Outcomes of the random tie-break tried for eight players: two groups of four
\* players, each in any order.
EightOrders ==
    {front \o back : front \in Perms(<<"p1", "p2", "p3", "p4">>),
                     back \in Perms(<<"p5", "p6", "p7", "p8">>)}
    \cup
    {front \o back : front \in Perms(<<"p1", "p2", "p3", "p5">>),
                     back \in Perms(<<"p4", "p6", "p7", "p8">>)}

PointsOf(standings, player_id) ==
    standings[CHOOSE i \in DOMAIN standings : standings[i].player_id = player_id].total_points

\* order is an outcome of sorted(standings, key=(total_points, random.random()),
\* reverse=True): the same test as SortedOrders makes.
IsSortedOrder(standings, order) ==
    /\ Len(order) = Len(standings)
    /\ \A i \in DOMAIN standings : \E k \in DOMAIN order : order[k] = standings[i].player_id
    /\ \A k \in 1..(Len(order) - 1) :
            PointsOf(standings, order[k]) >= PointsOf(standings, order[k + 1])

AdvanceArgs ==
    UNION {{Args("advance_round", [event |-> ev, caller |-> caller, order |-> order]) :
                order \in {o \in EightOrders : IsSortedOrder(ev.standings, o)},
                caller \in {c \in Callers : c.id = CreatorId}} :
           ev \in EightDone}
    \cup
    UNION {{Args("advance_round", [event |-> ev, caller |-> caller, order |-> order]) :
                order \in SortedOrders(ev.standings),
                caller \in {c \in Callers : c.id = CreatorId}} :
           ev \in Round1Done \cup HalfEvents}

\* advance_round on the stored event of the call.
CallAdvanceRound ==
    LET a == probe.args
        code == advance_round_code(a.event, a.caller)
    IN  Return("advance_round",
               [code |-> code,
                event |-> IF code = "ok" THEN advance_round_save(a.event, a.order)
                          ELSE a.event])

\* Stores of a playgroup: empty, one match, two matches.
EmptyDb == [pod_matches |-> <<>>, ratings |-> {}, history |-> <<>>]

SampleDbs ==
    LET seed(w, pod) == [player_deck_pairs |-> Pairs(<<"p1", "p2", "p3">>),
                         winner_player_id |-> w, winner_deck_id |-> DeckOf(w),
                         match_date |-> 2, elimination_orders |-> <<>>, pod_id |-> pod]
        one == {create_match_db(EmptyDb, seed(w, pod)) : w \in {"p1", "p2"}, pod \in {ThePod, None}}
    IN  {EmptyDb} \cup one \cup {create_match_db(db, seed("p3", ThePod)) : db \in one}

MatchRequestArgs ==
    {Args("create_match", [db |-> db, request |-> request]) :
        db \in SampleDbs, request \in CreateRequests}
    \cup
    {Args("update_match", [db |-> db, id |-> id, request |-> request]) :
        db \in SampleDbs, id \in 1..2, request \in UpdateRequests}

CallCreateMatch ==
    Return("create_match",
           [code |-> create_match_code(probe.args.request),
            db |-> create_match_db(probe.args.db, probe.args.request)])

CallUpdateMatch ==
    Return("update_match",
           [code |-> update_match_response(probe.args.db, probe.args.id, probe.args.request),
            db |-> update_match_db(probe.args.db, probe.args.id, probe.args.request)])

\* Event.validate_player_count: the value passes the model's validator.
ValidPlayerCount(v) == v \in {4, 8, 12}

\* Event.validate_round_count
ValidRoundCount(v) == ~(v < 1 \/ v > 10)

\* create_event for a member of the pod without an active event, on players of
\* the pod who are free: 400 from the handler's own checks, 500 when the Event
\* constructor raises the validator's ValueError, else ok.
create_event_code(request) ==
    LET player_count == Len(request.player_ids)
    IN  IF request.event_type = "draft"
             /\ (player_count < 4 \/ player_count > 12 \/ player_count % 2 # 0)
        THEN "400"
        ELSE IF request.event_type = "draft" /\ request.game_mode \notin {"commander", "limited"}
        THEN "400"
        ELSE IF request.event_type # "draft" /\ player_count \notin {4, 8, 12}
        THEN "400"
        ELSE IF ~ValidPlayerCount(player_count) \/ ~ValidRoundCount(request.round_count)
        THEN "500"
        ELSE "ok"

\* The events collection after create_event on an empty collection.
create_event_store(request) ==
    IF create_event_code(request) = "ok"
    THEN {EventOf(request.event_type, request.round_count, request.player_ids)}
    ELSE {}

ManyPlayers ==
    <<"p1", "p2", "p3", "p4", "p5", "p6", "p7", "p8", "p9", "p10", "p11", "p12", "p13">>

CreateEventArgs ==
    {Args("create_event",
          [event_type |-> type, player_ids |-> SubSeq(ManyPlayers, 1, n),
           round_count |-> rc, game_mode |-> gm]) :
        type \in EventTypes, n \in 0..13, rc \in {0, 1, 3, 10, 11},
        gm \in {"commander", "limited", "brawl", None}}

CallCreateEvent ==
    Return("create_event",
           [code |-> create_event_code(probe.args), events |-> create_event_store(probe.args)])

\* Winners of a playgroup's matches, oldest first: every list of up to 6
\* matches among four players, and 30 and 31 matches.
BalanceWinners ==
    UNION {[1..k -> {"p1", "p2", "p3", "p4"}] : k \in 0..6}
    \cup {[i \in 1..30 |-> "p1"], [i \in 1..31 |-> IF i = 1 THEN "p2" ELSE "p1"]}

BalanceArgs == {Args("pod_balance", [winners |-> ws]) : ws \in BalanceWinners}

CallPodBalance == Return("pod_balance", get_pod_balance(probe.args.winners))

\* POST /events bodies whose player_ids are four or eight distinct players, six
\* players, or four ids of which one is named twice.
StartRequests ==
    {[event_type |-> type, player_ids |-> ids, round_count |-> 2, game_mode |-> "commander"] :
        type \in EventTypes,
        ids \in {SubSeq(ManyPlayers, 1, 4), SubSeq(ManyPlayers, 1, 6), SubSeq(ManyPlayers, 1, 8),
                 <<"p1", "p1", "p2", "p3">>}}

\* Outcomes of random.shuffle tried: the list as it is, reversed, and rotated.
Shuffles(ids) ==
    {ids,
     [i \in DOMAIN ids |-> ids[Len(ids) + 1 - i]],
     [i \in DOMAIN ids |-> ids[(i % Len(ids)) + 1]]}

StartEventArgs ==
    UNION {{Args("start_event", [request |-> request, shuffled |-> shuffled]) :
                shuffled \in Shuffles(request.player_ids)} :
           request \in StartRequests}

\* create_event, then start_tournament by the creator on the stored event.
CallStartEvent ==
    LET request == probe.args.request
        code == create_event_code(request)
    IN  Return("start_event",
               [code |-> code,
                events |-> {start_tournament_save(ev, probe.args.shuffled) :
                                ev \in create_event_store(request)}])

NextFun ==
    \/ CallStartEvent
    \/ CallCreateEvent
    \/ CallPodBalance
    \/ CallCreateMatch
    \/ CallUpdateMatch
    \/ CallAdvanceRound
    \/ CallSwissPair
    \/ CallEloChanges
    \/ CallProcessMatch
    \/ CallMatchPoints
    \/ CallAltWinPoints
    \/ CallCompleteMatch

FunArgs ==
    EloChangesArgs \cup ProcessMatchArgs \cup MatchPointsArgs \cup AltWinArgs
    \cup CompleteMatchArgs \cup SwissArgs \cup AdvanceArgs \cup MatchRequestArgs
    \cup BalanceArgs \cup CreateEventArgs \cup StartEventArgs

InitFun ==
    /\ event = NewEvent("tournament", 1)
    /\ matches = NoLinks
    /\ inflight = Idle
    /\ NoDeckCalls /\ NoElo
    /\ probe \in FunArgs

SpecFun == InitFun /\ [][NextFun]_vars

----------------------------------------------------------------------------
(* Claims *)

RoundIdx == DOMAIN event.rounds
PodIdx(r) == DOMAIN event.rounds[r].pods
PodAt(ev, r, p) == ev.rounds[r].pods[p]
Changed == event' # event

\* C1: the event status moves only setup -> active, by start, and
\* active -> completed, by complete; start-match, cancel-match, complete-match,
\* set-deck and advance-round never change it.
C1_StatusTransitions ==
    [][/\ event'.status # event.status =>
            \/ event.status = "setup" /\ event'.status = "active" /\ StartTournament
            \/ event.status = "active" /\ event'.status = "completed" /\ CompleteTournament
       /\ (StartPodMatch \/ CancelPodMatch \/ CompletePodMatch \/ SetPodDeck \/ AdvanceRound)
            => event'.status = event.status]_vars

C1_Witness ==
    /\ event.status = "completed"
    /\ event.completed_at # None
    /\ event.round_count = MaxRounds

\* What advance_round requires of the stored event and what it stores.
AdvancePre(ev) ==
    /\ ev.status = "active"
    /\ ev.current_round \in DOMAIN ev.rounds
    /\ ev.rounds[ev.current_round].status = "completed"
    /\ ev.current_round < ev.round_count

AdvancePost(ev, ev2) ==
    LET n == ev.current_round + 1
    IN  /\ ev2.current_round = n
        /\ ev2.status = ev.status
        /\ ev2.standings = ev.standings
        /\ ev2.rounds[n].status = "in_progress"
        /\ ev2.rounds[n].results = <<>>
        /\ ev2.rounds[n].pods # <<>>
        /\ \A p \in DOMAIN ev2.rounds[n].pods :
                /\ ev2.rounds[n].pods[p].match_status = "pending"
                /\ ev2.rounds[n].pods[p].match_id = None
                /\ ev2.rounds[n].pods[p].pod_index = p - 1
        /\ \E order \in SortedOrders(ev.standings) :
                ev2.rounds[n].pods = NextRoundPods(ev, order)
        /\ \A r \in DOMAIN ev.rounds : r # n => ev2.rounds[r] = ev.rounds[r]

\* C2: advance-round is accepted only on an active event whose round numbered
\* current_round is completed and current_round < round_count; it then adds
\* exactly 1 to current_round and puts that round in_progress with newly computed
\* (pending) pods; in every other state it is rejected and the event unchanged.
\* current_round changes in no other way once the event has started.
C2_AdvanceRound ==
    [][/\ (AdvanceRound /\ Changed) => AdvancePre(event) /\ AdvancePost(event, event')
       /\ ~AdvancePre(event) => \A caller \in Callers : advance_round_code(event, caller) # "ok"
       /\ (event'.current_round # event.current_round /\ event.status # "setup")
            => AdvanceRound]_vars

C2_Witness ==
    /\ event.current_round = 2
    /\ event.rounds[1].status = "completed"
    /\ event.rounds[2].status = "in_progress"
    /\ event.rounds[2].pods # <<>>

\* C3: in every reachable state a round is completed if and only if it has pods
\* and every one of its pods is completed.
C3_RoundCompletedIff ==
    \A r \in RoundIdx :
        event.rounds[r].status = "completed" <=>
            /\ event.rounds[r].pods # <<>>
            /\ \A p \in PodIdx(r) : PodAt(event, r, p).match_status = "completed"

C3_Witness ==
    /\ event.event_type = "draft"
    /\ event.rounds[1].status = "completed"
    /\ Len(event.rounds[1].pods) = 2

\* C4: an accepted start always performs the setup -> active transition on the
\* stored event and creates round 1's pods; it never overwrites pod assignments
\* an earlier start has stored (the second of two concurrent starts is rejected).
C4_StartOnlyFromStoredSetup ==
    [][(inflight.pc = "save_event" /\ inflight.op = "start" /\ SaveEvent)
            => /\ event.status = "setup"
               /\ event.rounds[1].pods = <<>>]_vars

\* C5: an accepted advance-round acts on the stored event it was validated
\* against: at its save the stored current_round is the one it read and the next
\* round's stored pods are still empty, so no pod assignment of round k+1 written
\* by another advance-round is overwritten.
C5_AdvanceRevalidatedAtWrite ==
    [][(inflight.pc = "save_event" /\ inflight.op = "advance" /\ SaveEvent)
            => /\ event.current_round = inflight.ev.current_round
               /\ event.rounds[inflight.ev.current_round + 1].pods = <<>>]_vars

\* One step of a pod along the sub-state machine, by the request that takes it.
PodStep(old, new) ==
    \/ old.match_status = "pending" /\ new.match_status = "in_progress" /\ StartPodMatch
    \/ old.match_status = "in_progress" /\ new.match_status = "completed" /\ CompletePodMatch
    \/ /\ old.match_status = "in_progress" /\ new.match_status = "pending"
       /\ new.match_id = None /\ CancelPodMatch

\* C6: a pod's match_status changes only pending -> in_progress (start-match),
\* in_progress -> completed (complete-match) and in_progress -> pending
\* (cancel-match, which clears match_id); start-match is accepted only on a
\* pending pod.
C6_PodTransitions ==
    [][\A r \in RoundIdx : \A p \in PodIdx(r) :
            /\ (p \in DOMAIN event'.rounds[r].pods
                /\ PodAt(event', r, p).match_status # PodAt(event, r, p).match_status)
                    => PodStep(PodAt(event, r, p), PodAt(event', r, p))
            /\ PodAt(event, r, p).match_status # "pending"
                    => \A caller \in Callers :
                          start_pod_match_code(event, r, PodAt(event, r, p).pod_index,
                                               caller) # "ok"]_vars

\* Completed pods, their results in the round and the totals they add up to.
CompletedPods(r) ==
    {p \in PodIdx(r) : PodAt(event, r, p).match_status = "completed"}

ResultsOf(r, pid) ==
    {i \in DOMAIN event.rounds[r].results : event.rounds[r].results[i].player_id = pid}

PodsScoring(r, pid) ==
    {p \in CompletedPods(r) :
        \E i \in DOMAIN MatchStore[PodAt(event, r, p).match_id].players :
            MatchStore[PodAt(event, r, p).match_id].players[i].player_id = pid}

RECURSIVE SumTotals(_)
SumTotals(results) ==
    IF results = <<>> THEN 0 ELSE Head(results).total + SumTotals(Tail(results))

RECURSIVE SumSeq(_)
SumSeq(q) == IF q = <<>> THEN 0 ELSE Head(q) + SumSeq(Tail(q))

PlayerTotal(pid) ==
    SumSeq([r \in RoundIdx |->
        SumTotals(SelectSeq(event.rounds[r].results, LAMBDA rr : rr.player_id = pid))])

PlayerWins(pid) ==
    SumSeq([r \in RoundIdx |->
        Cardinality({p \in CompletedPods(r) :
            MatchStore[PodAt(event, r, p).match_id].winner_player_id = pid})])

\* C7: a complete-match request for a completed pod is rejected; each pod's
\* results are in the round's results and in the standings exactly once: per
\* player, the round holds one result for every completed pod of the round whose
\* match the player took part in, and the standings hold the sum of all results.
C7_CompletedOnce ==
    /\ \A r \in RoundIdx : \A p \in CompletedPods(r) : \A match_id \in MatchIdInputs :
            complete_pod_match_code(event, r, PodAt(event, r, p).pod_index, match_id) # "ok"
    /\ \A r \in RoundIdx : \A pid \in PlayerIds :
            Cardinality(ResultsOf(r, pid)) = Cardinality(PodsScoring(r, pid))
    /\ \A i \in DOMAIN event.standings :
            /\ event.standings[i].total_points = PlayerTotal(event.standings[i].player_id)
            /\ event.standings[i].wins = PlayerWins(event.standings[i].player_id)

C7_Witness ==
    /\ event.event_type = "draft"
    /\ event.status = "active"
    /\ PodAt(event, 1, 1).match_status = "completed"
    /\ PodAt(event, 1, 2).match_status = "in_progress"
    /\ Len(event.rounds[1].results) = Len(MatchStore["m1"].players)

\* C8: once a round is completed, every cancel-match request for one of its pods
\* is rejected, and the round and all its pods stay completed.
C8_CompletedRoundStays ==
    [][\A r \in RoundIdx : event.rounds[r].status = "completed" =>
            /\ \A p \in PodIdx(r) :
                    cancel_pod_match_code(event, r, PodAt(event, r, p).pod_index) # "ok"
            /\ event'.rounds[r].status = "completed"
            /\ DOMAIN event'.rounds[r].pods = PodIdx(r)
            /\ \A p \in PodIdx(r) : PodAt(event', r, p).match_status = "completed"]_vars

C8_Witness ==
    /\ event.status = "active"
    /\ event.current_round = 1
    /\ event.rounds[1].status = "completed"
    /\ event.round_count = MaxRounds

\* The players seated by a list of pods and what start_tournament stores.
PodPlayers(pods) ==
    UNION {Range(pods[p].player_ids) : p \in DOMAIN pods}

PodSeats(pods) ==
    SumSeq([p \in DOMAIN pods |-> Len(pods[p].player_ids)])

StartPost(ev, ev2) ==
    LET pods == ev2.rounds[1].pods
        size == IF ev.event_type = "draft" THEN 2 ELSE 4
    IN  /\ ev2.status = "active"
        /\ ev2.current_round = 1
        /\ ev2.rounds[1].status = "in_progress"
        /\ PodPlayers(pods) = Range(ev.players)
        /\ PodSeats(pods) = Len(ev.players)
        /\ \A p \in DOMAIN pods :
                /\ Len(pods[p].player_ids) = size
                /\ pods[p].match_status = "pending"
        /\ ev2.standings = ev.standings
        /\ \A r \in DOMAIN ev.rounds : r # 1 => ev2.rounds[r] = ev.rounds[r]

\* C9: start is accepted only in setup; it leaves the event active with
\* current_round = 1, round 1 in_progress and round 1's pods holding every
\* registered player exactly once, in groups of 4 (table format) or pairs
\* (head-to-head); in any other status it is rejected and the event unchanged.
C9_StartTournament ==
    [][/\ (StartTournament /\ Changed) => event.status = "setup" /\ StartPost(event, event')
       /\ event.status # "setup" =>
            \A caller \in Callers : start_tournament_code(event, caller) # "ok"]_vars

C9_Witness ==
    /\ event.event_type = "draft"
    /\ event.status = "active"
    /\ event.current_round = 1
    /\ Len(event.rounds[1].pods) = 2
    /\ \A p \in PodIdx(1) : PodAt(event, 1, p).match_status = "pending"

\* What complete_tournament requires of the stored event.
CompletePre(ev) ==
    /\ ev.status = "active"
    /\ ev.rounds[ev.round_count].status = "completed"

\* C10: the status becomes completed only from active with the round numbered
\* round_count completed, by complete; in every other state complete is rejected
\* and the event unchanged.
C10_CompleteTournament ==
    [][/\ (event'.status = "completed" /\ event.status # "completed")
            => CompletePre(event) /\ CompleteTournament
       /\ (CompleteTournament /\ Changed)
            => /\ CompletePre(event)
               /\ event' = [event EXCEPT !.status = "completed", !.completed_at = "utcnow"]
       /\ ~CompletePre(event)
            => \A caller \in Callers : complete_tournament_code(event, caller) # "ok"]_vars

C10_Witness ==
    /\ event.status = "completed"
    /\ \A p \in PodIdx(event.round_count) :
            PodAt(event, event.round_count, p).match_status = "completed"

\* The stored pod a set-deck request addresses (0 if there is none).
DeckCallPod(call) ==
    FindPod(event.rounds[FindRound(event, call.round_num)], call.pod_index)

DeckCallEntry(call) ==
    [player_id |-> call.player_id, deck_name |-> DeckStore[call.deck_id].name]

BothDecksSet(c1, c2) ==
    /\ deck_calls[c1].pc = "done" /\ deck_calls[c1].code = "ok"
    /\ deck_calls[c2].pc = "done" /\ deck_calls[c2].code = "ok"
    /\ deck_calls[c1].player_id # deck_calls[c2].player_id
    /\ deck_calls[c1].pod_index = deck_calls[c2].pod_index
    /\ DeckCallPod(deck_calls[c1]) # 0

\* C11: when two set-deck requests by different participants of the same pod
\* have both returned success, under every interleaving of their awaits, the
\* pod's player_decks holds both selections.
C11_BothDecksKept ==
    \A c1 \in DeckCallIds, c2 \in DeckCallIds :
        BothDecksSet(c1, c2) =>
            LET decks == PodAt(event, 1, DeckCallPod(deck_calls[c1])).player_decks
            IN  DeckCallEntry(deck_calls[c1]) \in decks /\ DeckCallEntry(deck_calls[c2]) \in decks

C11_Witness ==
    /\ BothDecksSet(1, 2)
    /\ deck_calls[1].pod_index = 1
    /\ Cardinality(PodAt(event, 1, 2).player_decks) = 2

RECURSIVE SumOver(_, _)
SumOver(f, keys) ==
    IF keys = {} THEN 0
    ELSE LET k == CHOOSE x \in keys : TRUE IN f[k] + SumOver(f, keys \ {k})

\* The unrounded contribution of the pair (i, j) to entry i, in millionths.
PairShare(player_elos, i, j, winner_id) ==
    ActualScore(player_elos[i][1], player_elos[j][1], winner_id)
        - calculate_expected_score(player_elos[i][2], player_elos[j][2])

\* C17: for 3 to 6 participants, any ratings and any winner among them, the
\* unrounded contributions of every pair cancel exactly, every participant gets
\* a delta, and the sum of the rounded deltas is at most 0.05 (half a tenth) per
\* participant away from 0.
C17_ZeroSum ==
    (probe.op = "elo_changes" /\ probe.done) =>
        LET pe == probe.args.player_elos
            n == Len(pe)
        IN  /\ \A i \in 1..n, j \in 1..n :
                    i # j => PairShare(pe, i, j, probe.args.winner_id)
                             + PairShare(pe, j, i, probe.args.winner_id) = 0
            /\ DOMAIN probe.out = {pe[i][1] : i \in 1..n}
            /\ 2 * Abs(SumOver(probe.out, DOMAIN probe.out)) <= n

C17_Witness ==
    /\ probe.op = "elo_changes" /\ probe.done
    /\ Len(probe.args.player_elos) = MaxMatchPlayers
    /\ SumOver(probe.out, DOMAIN probe.out) # 0
    /\ \E i \in DOMAIN probe.args.player_elos :
            probe.args.player_elos[i][2] # probe.args.player_elos[1][2]

\* C12: recalculations of a playgroup are serialized: once the concurrent
\* recalculation requests have all returned, the ratings and history are those
\* of a single recalculation of the stored matches (no history entry twice, no
\* delta applied twice, games_rated not over-counted).
C12_RecalcSerialized ==
    (\A t \in DOMAIN recalcs : recalcs[t].pc \in {"idle", "done"})
        => EloState = recalculate_pod_elo(EloState, pod_matches)

\* The ratings and history after the step.
EloStateNext == [ratings |-> ratings', history |-> history']

\* The step saved or deleted a match of the playgroup, so it ran
\* recalculate_pod_elo.
Recalculated ==
    \E id \in DOMAIN pod_matches :
        /\ MatchExists(pod_matches, id)
        /\ pod_matches[id].pod_id # None
        /\ \/ DeleteMatchReq(id)
           \/ \E request \in UpdateRequests :
                update_match_code(pod_matches[id], request) = "ok" /\ UpdateMatchReq(id, request)

\* C13: after a full recalculation, a second one on the same stored matches
\* yields the same PlayerEloRating values and the same history entries.
C13_RecalcIdempotent ==
    [][Recalculated => recalculate_pod_elo(EloStateNext, pod_matches') = EloStateNext]_vars

C13_Witness ==
    /\ \E id \in DOMAIN pod_matches : pod_matches[id].deleted
    /\ Len(history) >= MinRatedPlayers
    /\ \E r \in ratings : r.games_rated = 1 /\ r.current_elo # DEFAULT_ELO

\* The history entries of a player, in processing order.
HistoryOf(player_id) == SelectSeq(history, LAMBDA h : h.player_id = player_id)

\* C14: per player, the history entries in processing order chain: elo_after =
\* elo_before + elo_change, the first elo_before is the default 1000, each
\* elo_before is the previous elo_after, and the last elo_after is the player's
\* current rating (a player without entries has no rating or the default one).
C14_HistoryChains ==
    /\ \A h \in Range(history) : HasRating(ratings, h.player_id)
    /\ \A r \in ratings :
        LET hs == HistoryOf(r.player_id)
        IN  /\ \A i \in DOMAIN hs : hs[i].elo_after = hs[i].elo_before + hs[i].elo_change
            /\ \A i \in DOMAIN hs :
                    hs[i].elo_before = IF i = 1 THEN DEFAULT_ELO ELSE hs[i - 1].elo_after
            /\ r.current_elo = IF hs = <<>> THEN DEFAULT_ELO ELSE hs[Len(hs)].elo_after

C14_Witness ==
    /\ \E r \in ratings : Len(HistoryOf(r.player_id)) = 2 /\ r.current_elo # DEFAULT_ELO
    /\ \E r \in ratings : Len(HistoryOf(r.player_id)) = 1

\* C15: across match creations, edits and deletions a player's games_rated in
\* the playgroup never decreases: the rating stored for the player after a
\* request counts at least as many games as the one stored before it.
C15_GamesRatedMonotonic ==
    [][\A r \in ratings : \A r2 \in ratings' :
            r2.player_id = r.player_id => r2.games_rated >= r.games_rated]_vars

\* A request that carries a match date and nothing else.
DateOnly(request) ==
    ~request.has_pairs /\ request.winner_player_id = None /\ request.match_date # 0

\* The stored matches with every match date set to d.
Redated(stored, d) == [i \in DOMAIN stored |-> [stored[i] EXCEPT !.match_date = d]]

\* C16: recalculation replays in creation order, not match-date order: an edit
\* of only a match's date, with the recalculation it triggers, changes no
\* rating and no history entry, and the stored matches with any other match
\* dates recalculate to the same ratings and history.
C16_ReplayInCreationOrder ==
    [][/\ \A id \in DOMAIN pod_matches : \A request \in UpdateRequests :
            (DateOnly(request) /\ UpdateMatchReq(id, request))
                => UNCHANGED <<ratings, history>>
       /\ Recalculated =>
            \A d \in MatchDates :
                recalculate_pod_elo(EloStateNext, Redated(pod_matches', d)) = EloStateNext]_vars

\* Two rated matches whose dates run against their creation order and whose
\* winners differ.
C16_Witness ==
    /\ Len(pod_matches) >= 2
    /\ ~pod_matches[1].deleted /\ ~pod_matches[2].deleted
    /\ pod_matches[1].pod_id = ThePod /\ pod_matches[2].pod_id = ThePod
    /\ pod_matches[1].match_date > pod_matches[2].match_date
    /\ pod_matches[1].winner_player_id # pod_matches[2].winner_player_id
    /\ Len(history) > Len(pod_matches[1].players)

\* The participants' ids of a match document.
ParticipantIds(match) == {match.players[i].player_id : i \in DOMAIN match.players}

\* C18: a match with fewer than 3 participants, or with no playgroup, is not
\* rated: the delta map is empty, no history entry is appended, every rating
\* held before is unchanged, and a rating that did not exist before belongs to
\* a participant and has the default values.
C18_UnratedMatch ==
    (/\ probe.op = "process_match"
     /\ probe.done
     /\ \/ probe.args.match.pod_id = None
        \/ Len(probe.args.match.players) < 3)
        => /\ DOMAIN probe.out.changes = {}
           /\ probe.out.st.history = probe.args.st.history
           /\ probe.args.st.ratings \subseteq probe.out.st.ratings
           /\ \A r \in probe.out.st.ratings \ probe.args.st.ratings :
                /\ r.player_id \in ParticipantIds(probe.args.match)
                /\ r.current_elo = 10000 /\ r.peak_elo = 10000 /\ r.lowest_elo = 10000
                /\ r.games_rated = 0 /\ r.last_elo_change = 0
                /\ \A q \in probe.args.st.ratings : q.player_id # r.player_id

\* A 2-player match of a playgroup was processed with a participant who had a
\* rating and one who had none.
C18_Witness ==
    /\ probe.op = "process_match"
    /\ probe.done
    /\ probe.args.match.pod_id # None
    /\ Len(probe.args.match.players) < 3
    /\ probe.args.st.history # <<>>
    /\ probe.out.st.ratings # probe.args.st.ratings

\* The fixed placement table of the scoring rules.
TablePoints(order) ==
    IF order = 1 THEN 3 ELSE IF order = 2 THEN 2 ELSE IF order = 3 THEN 1 ELSE 0

\* The other participants this one eliminated by a kill.
KilledBy(match, i) ==
    {j \in DOMAIN match.players \ {i} :
        /\ match.players[j].eliminated_by_player_id = match.players[i].player_id
        /\ match.players[j].elimination_type = "kill"}

C20_AltWinScoring ==
    (probe.op = "alt_win_points" /\ probe.done /\ probe.out.code = "ok")
        => \A i \in DOMAIN probe.out.match.players :
                LET mp == probe.out.match.players[i]
                    r == probe.out.results[i]
                IN  /\ r.player_id = mp.player_id
                    /\ r.kill_points = 0
                    /\ r.scoop_penalty = (IF mp.elimination_type = "scoop" THEN 0 - 1 ELSE 0)
                    /\ IF mp.player_id = probe.out.match.winner_player_id
                       THEN r.alt_win_points = 4 /\ r.placement_points = 0
                       ELSE /\ r.alt_win_points = 0
                            /\ r.placement_points =
                                 (IF mp.elimination_order \in {NoOrder, 1} THEN 2
                                  ELSE TablePoints(mp.elimination_order))
                    /\ r.total = r.placement_points + r.kill_points + r.scoop_penalty
                                 + r.alt_win_points

\* The results a complete-match call appended to its round.
NewResults ==
    LET r == FindRound(probe.args.event, probe.args.round_num)
    IN  SubSeq(probe.out.event.rounds[r].results,
               Len(probe.args.event.rounds[r].results) + 1,
               Len(probe.out.event.rounds[r].results))

CompletedCall == probe.op = "complete_match" /\ probe.done /\ probe.out.code = "ok"

\* C21: in a head-to-head (draft) event an accepted complete-match appends one
\* result per participant of the match: total 1 for the match winner and 0 for
\* every other participant, with no kill, alt-win or scoop component, whatever
\* the elimination data and the alt-win flag.
C21_DraftScoring ==
    (CompletedCall /\ probe.args.event.event_type = "draft")
        => LET match == MatchStore[probe.args.match_id]
           IN  /\ Len(NewResults) = Len(match.players)
               /\ \A i \in DOMAIN match.players :
                    /\ NewResults[i].player_id = match.players[i].player_id
                    /\ NewResults[i].total =
                         (IF match.players[i].player_id = match.winner_player_id THEN 1 ELSE 0)
                    /\ NewResults[i].kill_points = 0
                    /\ NewResults[i].alt_win_points = 0
                    /\ NewResults[i].scoop_penalty = 0

\* A draft pod was completed with the alt-win flag set and a match that holds
\* kills and a scoop.
C21_Witness ==
    /\ CompletedCall
    /\ probe.args.event.event_type = "draft"
    /\ probe.args.is_alt_win
    /\ \E i, j \in DOMAIN MatchStore[probe.args.match_id].players :
        /\ MatchStore[probe.args.match_id].players[i].elimination_type = "kill"
        /\ MatchStore[probe.args.match_id].players[j].elimination_type = "scoop"
    /\ \E i \in DOMAIN NewResults : NewResults[i].total = 1

\* The result of participant pid among the results a call appended.
ResultOf(pid) ==
    NewResults[CHOOSE i \in DOMAIN NewResults : NewResults[i].player_id = pid]

\* C22: an accepted complete-match for a pod of round r changes the standings
\* exactly so: each participant of the linked match gains their round total in
\* total_points and their kill points in kills, gains one win if and only if
\* they are the match winner, and has round_points extended with zeros to
\* length r with slot r holding that total; every other entry is unchanged.
C22_StandingsMerge ==
    CompletedCall
        => LET match == MatchStore[probe.args.match_id]
               r == probe.args.round_num
               old == probe.args.event.standings
               new == probe.out.event.standings
           IN  /\ Len(new) = Len(old)
               /\ \A i \in DOMAIN old :
                    IF old[i].player_id \in {match.players[k].player_id : k \in DOMAIN match.players}
                    THEN LET rr == ResultOf(old[i].player_id)
                         IN  /\ new[i].player_id = old[i].player_id
                             /\ new[i].total_points = old[i].total_points + rr.total
                             /\ new[i].kills = old[i].kills + rr.kill_points
                             /\ new[i].wins = old[i].wins
                                    + (IF match.winner_player_id = old[i].player_id THEN 1 ELSE 0)
                             /\ Len(new[i].round_points) = r
                             /\ new[i].round_points[r] = rr.total
                             /\ \A k \in 1..(r - 1) :
                                    new[i].round_points[k] =
                                        (IF k <= Len(old[i].round_points)
                                         THEN old[i].round_points[k] ELSE 0)
                    ELSE new[i] = old[i]

\* The places (pod, seat) at which player pid sits in a list of pods.
Seats(pods, pid) ==
    {<<i, k>> \in (DOMAIN pods) \X (1..2) :
        k <= Len(pods[i].player_ids) /\ pods[i].player_ids[k] = pid}

\* C23: for standings with an even number of players and any previous rounds,
\* one with every possible pair already played included, Swiss pairing returns
\* pods of exactly 2 players in which every player appears exactly once.
C23_SwissPairsEveryone ==
    (probe.op = "swiss_pair" /\ probe.done /\ Len(probe.args.standings) % 2 = 0)
        => /\ 2 * Len(probe.out) = Len(probe.args.standings)
           /\ \A i \in DOMAIN probe.out : Len(probe.out[i].player_ids) = 2
           /\ \A i \in DOMAIN probe.args.standings :
                Cardinality(Seats(probe.out, probe.args.standings[i].player_id)) = 1

\* Six players were paired although every pair of them had already played.
C23_Witness ==
    /\ probe.op = "swiss_pair"
    /\ probe.done
    /\ Len(probe.args.standings) = 6
    /\ Len(probe.args.previous_rounds) = 5
    /\ Len(probe.out) = 3

AdvancedCall == probe.op = "advance_round" /\ probe.done /\ probe.out.code = "ok"

\* The pods advance-round wrote for the next round.
NextPods == probe.out.event.rounds[probe.out.event.current_round].pods

\* The pairs of players that sat alone at one table in a completed round.
MetPairs(ev) ==
    {{ev.rounds[r].pods[p].player_ids[1], ev.rounds[r].pods[p].player_ids[2]} :
        <<r, p>> \in {<<r, p>> \in (DOMAIN ev.rounds) \X (1..6) :
                        /\ ev.rounds[r].status = "completed"
                        /\ p \in DOMAIN ev.rounds[r].pods
                        /\ Len(ev.rounds[r].pods[p].player_ids) = 2}}

\* Some way to pair all players of the set without a pair that has met.
RECURSIVE FreshPairingExists(_, _)
FreshPairingExists(players, met) ==
    IF players = {} THEN TRUE
    ELSE LET a == CHOOSE x \in players : TRUE
         IN  \E b \in players \ {a} :
                {a, b} \notin met /\ FreshPairingExists(players \ {a, b}, met)

\* C24: Swiss pairing avoids repeat pairings when possible: at an accepted
\* advance-round of a head-to-head event, if all players can be paired so that
\* no pair has met in a completed round, the pods of the next round hold no
\* pair that has met.
C24_NoAvoidableRematch ==
    (/\ AdvancedCall
     /\ probe.args.event.event_type = "draft"
     /\ FreshPairingExists({probe.args.event.standings[i].player_id :
                                i \in DOMAIN probe.args.event.standings},
                           MetPairs(probe.args.event)))
        => \A i \in DOMAIN NextPods :
                {NextPods[i].player_ids[1], NextPods[i].player_ids[2]}
                    \notin MetPairs(probe.args.event)

\* C25: in table-format events the pods of every round after the first are
\* strength-grouped by the standings at advance time: a player in a
\* lower-indexed pod has at least as many total_points as any player in a
\* higher-indexed pod, and every pod has 4 players.
C25_StrengthGrouped ==
    (AdvancedCall /\ probe.args.event.event_type = "tournament")
        => /\ \A i \in DOMAIN NextPods :
                /\ Len(NextPods[i].player_ids) = 4
                /\ NextPods[i].pod_index = i - 1
           /\ \A i, j \in DOMAIN NextPods :
                i < j => \A a \in DOMAIN NextPods[i].player_ids,
                            b \in DOMAIN NextPods[j].player_ids :
                            PointsOf(probe.args.event.standings, NextPods[i].player_ids[a])
                                >= PointsOf(probe.args.event.standings,
                                            NextPods[j].player_ids[b])

\* Two pods were seeded for round 2 of an 8-player table event, the first with
\* a player who did not sit in pod 0 of round 1 and holds points.
C25_Witness ==
    /\ AdvancedCall
    /\ probe.args.event.event_type = "tournament"
    /\ Len(NextPods) = 2
    /\ probe.out.event.current_round = 2
    /\ \E a \in DOMAIN NextPods[1].player_ids :
        /\ PointsOf(probe.args.event.standings, NextPods[1].player_ids[a]) > 0
        /\ \A k \in DOMAIN probe.args.event.rounds[1].pods[1].player_ids :
                probe.args.event.rounds[1].pods[1].player_ids[k] # NextPods[1].player_ids[a]
    /\ \E b \in DOMAIN NextPods[2].player_ids :
        PointsOf(probe.args.event.standings, NextPods[2].player_ids[b]) = 0

\* C26: a rejected match create or update request (participant count out of
\* range, winner not among the participants, unknown player or deck) writes
\* nothing: the stored matches, ratings and history are left as they were.
C26_RejectWritesNothing ==
    (probe.op \in {"create_match", "update_match"} /\ probe.done /\ probe.out.code # "ok")
        => probe.out.db = probe.args.db

\* An update naming an unknown deck was refused on a playgroup that holds a
\* rated match.
C26_Witness ==
    /\ probe.op = "update_match"
    /\ probe.done
    /\ probe.out.code = "404"
    /\ MatchExists(probe.args.db.pod_matches, probe.args.id)
    /\ probe.args.db.history # <<>>

BalanceCall == probe.op = "pod_balance" /\ probe.done

\* The matches the query analyses: the last 30 of the playgroup.
Analysed == LastMatches(probe.args.winners)

\* C27: for a playgroup whose analysed matches (at least 5, at most the last
\* 30) were all won by one player, the balance query reports a low score with
\* status Dominated.
C27_SingleWinnerDominated ==
    (/\ BalanceCall
     /\ Len(Analysed) >= 5
     /\ \A i, j \in DOMAIN Analysed : Analysed[i] = Analysed[j])
        => probe.out.status = "Dominated" /\ probe.out.score < 50

\* C28: for a playgroup with exactly 4 recorded matches won by 4 distinct
\* players, the balance query reports a high score with status Healthy.
C28_FourWinnersHealthy ==
    (/\ BalanceCall
     /\ Len(probe.args.winners) = 4
     /\ \A i, j \in DOMAIN probe.args.winners :
            i # j => probe.args.winners[i] # probe.args.winners[j])
        => probe.out.status = "Healthy" /\ probe.out.score >= 70

\* C29: event creation (with a valid round count and, for a draft, a valid
\* game mode) accepts a head-to-head/draft event for every even player count
\* from 4 to 12 and a bracket event exactly for 4, 8 or 12 players; every other
\* player count is rejected; a rejected request stores no event.
C29_AcceptedPlayerCounts ==
    (/\ probe.op = "create_event"
     /\ probe.done
     /\ probe.args.round_count \in 1..10
     /\ probe.args.event_type = "draft" => probe.args.game_mode \in {"commander", "limited"})
        => LET n == Len(probe.args.player_ids)
               allowed == IF probe.args.event_type = "draft" THEN {4, 6, 8, 10, 12}
                          ELSE {4, 8, 12}
           IN  /\ (probe.out.code = "ok") <=> (n \in allowed)
               /\ probe.out.code = "ok" => Cardinality(probe.out.events) = 1
               /\ probe.out.code # "ok" => probe.out.events = {}

\* The pods of the suspended request's round that another complete-match
\* request completed after the suspended one had loaded the event.
OvertakingPods ==
    LET r == FindRound(event, inflight.round_num)
    IN  {q \in DOMAIN event.rounds[r].pods :
            /\ event.rounds[r].pods[q].pod_index # inflight.pod_index
            /\ event.rounds[r].pods[q].match_status = "completed"
            /\ inflight.ev.rounds[r].pods[q].match_status # "completed"}

\* C30: when two complete-match requests for two different pods of one round
\* run concurrently and both succeed, then after the later save both pods are
\* completed with their match ids, the results of both matches are in the
\* round's results and in the standings, and the round is completed if no pod
\* is left open: neither completion is lost.
C30_BothCompletionsKept ==
    [][(/\ inflight.pc = "save_event"
        /\ inflight.op = "complete_match"
        /\ inflight' = Idle
        /\ event.current_round = inflight.round_num
        /\ OvertakingPods # {})
            => LET r == FindRound(event, inflight.round_num)
                   p == FindPod(event.rounds[r], inflight.pod_index)
               IN  /\ \A q \in OvertakingPods \cup {p} :
                        /\ event'.rounds[r].pods[q].match_status = "completed"
                        /\ event'.rounds[r].pods[q].match_id # None
                   /\ Len(event'.rounds[r].results) > Len(event.rounds[r].results)
                   /\ SubSeq(event'.rounds[r].results, 1, Len(event.rounds[r].results))
                        = event.rounds[r].results
                   /\ \A i \in DOMAIN event.standings :
                        event'.standings[i].total_points >= event.standings[i].total_points
                   /\ AllPodsCompleted(event'.rounds[r])
                        => event'.rounds[r].status = "completed"]_vars

\* The deck selections set-deck has written: (round_number, pod_index, entry)
\* for every entry of a pod's player_decks that names a deck of the store.
DeckSelections(ev) ==
    UNION {UNION {{<<ev.rounds[r].round_number, ev.rounds[r].pods[p].pod_index, e>> :
                        e \in {d \in ev.rounds[r].pods[p].player_decks :
                                    \E id \in DOMAIN DeckStore : DeckStore[id].name = d.deck_name}} :
                  p \in DOMAIN ev.rounds[r].pods} :
           r \in DOMAIN ev.rounds}

\* The requests of the claim that load the whole event and save it later.
StaleWriters == {"start_match", "cancel_match", "complete_match", "advance"}

\* C31: a deck selection that set-deck has written stays in the pod's
\* player_decks when a start-match, cancel-match, complete-match or
\* advance-round request that loaded the event earlier saves it.
C31_DeckSelectionKept ==
    [][(inflight.pc = "save_event" /\ inflight.op \in StaleWriters /\ SaveEvent)
            => DeckSelections(event) \subseteq DeckSelections(event')]_vars

\* C32: once the stored event is completed, no step changes its status,
\* current_round, rounds (pods and results) or standings, the save of a
\* request that loaded the event before it was completed included.
C32_CompletedFrozen ==
    [][event.status = "completed"
            => /\ event'.status = event.status
               /\ event'.current_round = event.current_round
               /\ event'.rounds = event.rounds
               /\ event'.standings = event.standings]_vars

\* q[1] + ... + q[n]
RECURSIVE SumTo(_, _)
SumTo(q, n) == IF n = 0 THEN 0 ELSE q[n] + SumTo(q, n - 1)

\* The sum of one field over a player's RoundResults of all rounds.
ResultSum(ev, player_id, field) ==
    SumTo([r \in DOMAIN ev.rounds |->
                SumTo([k \in DOMAIN ev.rounds[r].results |->
                            IF ev.rounds[r].results[k].player_id = player_id
                            THEN ev.rounds[r].results[k][field] ELSE 0],
                      Len(ev.rounds[r].results))],
          Len(ev.rounds))

\* C33: in every reachable state each standings entry agrees with the recorded
\* results: total_points is the sum of the player's RoundResult totals of all
\* rounds and the sum of the player's round_points, kills is the sum of the
\* player's kill_points, and round_points has at most current_round slots.
C33_StandingsMatchResults ==
    \A i \in DOMAIN event.standings :
        LET st == event.standings[i]
        IN  /\ st.total_points = ResultSum(event, st.player_id, "total")
            /\ st.total_points = SumTo(st.round_points, Len(st.round_points))
            /\ st.kills = ResultSum(event, st.player_id, "kill_points")
            /\ Len(st.round_points) <= event.current_round

\* A player holds results of two rounds, with kills and a nonzero total.
C33_Witness ==
    /\ event.current_round = 2
    /\ \E i \in DOMAIN event.standings :
        /\ Len(event.standings[i].round_points) = 2
        /\ event.standings[i].kills > 0
        /\ event.standings[i].round_points[1] > 0
        /\ event.standings[i].round_points[2] > 0

\* The pods of the event a match is linked to, as (round_number, pod_index).
PodsOfMatch(ev, match_id) ==
    UNION {{<<ev.rounds[r].round_number, ev.rounds[r].pods[p].pod_index>> :
                p \in {q \in DOMAIN ev.rounds[r].pods : ev.rounds[r].pods[q].match_id = match_id}} :
           r \in DOMAIN ev.rounds}

\* C34: a round holds at most one RoundResult per player, every result is of a
\* player of one of the round's pods, and no match is linked to more than one
\* pod of the event.
C34_ResultsKeyedByPlayer ==
    /\ \A r \in DOMAIN event.rounds :
        LET round == event.rounds[r]
        IN  /\ \A i, j \in DOMAIN round.results :
                    i # j => round.results[i].player_id # round.results[j].player_id
            /\ \A i \in DOMAIN round.results :
                    \E p \in DOMAIN round.pods :
                        round.results[i].player_id \in Range(round.pods[p].player_ids)
    /\ \A m \in MatchIds : Cardinality(PodsOfMatch(event, m)) <= 1

\* C35: current_round is 0 exactly in setup and within 1..round_count
\* otherwise; the rounds below current_round are completed, the round
\* current_round is in_progress or completed, and the rounds above it are
\* pending without pods and without results.
C35_RoundsSequential ==
    /\ event.current_round = 0 <=> event.status = "setup"
    /\ event.status # "setup" => event.current_round \in 1..event.round_count
    /\ \A r \in DOMAIN event.rounds :
        LET round == event.rounds[r]
        IN  /\ round.round_number < event.current_round => round.status = "completed"
            /\ round.round_number = event.current_round
                    => round.status \in {"in_progress", "completed"}
            /\ round.round_number > event.current_round
                    => /\ round.status = "pending"
                       /\ round.pods = <<>>
                       /\ round.results = <<>>

\* The event is in its second round: round 1 lies below current_round.
C35_Witness ==
    /\ event.status = "active"
    /\ event.current_round = 2
    /\ event.rounds[1].status = "completed"
    /\ event.rounds[2].status = "in_progress"
    /\ event.rounds[2].pods # <<>>

\* The places (pod, seat) at which player pid sits in a list of pods.
SeatsOf(pods, pid) ==
    UNION {{<<i, k>> : k \in {j \in DOMAIN pods[i].player_ids : pods[i].player_ids[j] = pid}} :
           i \in DOMAIN pods}

\* The pods seat every registered player exactly once and nobody else.
Partitions(pods, players) ==
    /\ \A i \in DOMAIN players : Cardinality(SeatsOf(pods, players[i])) = 1
    /\ \A i \in DOMAIN pods : \A k \in DOMAIN pods[i].player_ids :
            \E j \in DOMAIN players : players[j] = pods[i].player_ids[k]

\* C36: the pods of a started round, round 1 after start and a later round
\* after advance-round, in both formats, partition the registered players.
C36_PodsPartitionPlayers ==
    /\ (probe.op = "start_event" /\ probe.done)
            => \A ev \in probe.out.events : Partitions(ev.rounds[1].pods, ev.players)
    /\ AdvancedCall => Partitions(NextPods, probe.out.event.players)

\* An event closed after all of its rounds.
Finished(ev) ==
    /\ ev.status = "completed"
    /\ ev.current_round = ev.round_count
    /\ Len(ev.rounds) = ev.round_count
    /\ \A r \in DOMAIN ev.rounds :
            /\ ev.rounds[r].status = "completed"
            /\ \A i \in DOMAIN ev.rounds[r].pods :
                    ev.rounds[r].pods[i].match_status = "completed"

\* C37: every started event finishes: under the scheduling assumptions of
\* SpecLive an active event eventually has status completed, and then its
\* current round is round round_count and every one of its rounds is completed.
C37_StartedEventFinishes == (event.status = "active") ~> Finished(event)

C37_Witness == Finished(event) /\ event.round_count = MaxRounds /\ event.completed_at = "utcnow"

\* Stored matches of the playgroup.
RatedMatches == {i \in DOMAIN pod_matches : ~pod_matches[i].deleted /\ pod_matches[i].pod_id # None}

\* C38: incremental rating and from-scratch replay agree: a full recalculation
\* of the playgroup leaves every rating (current, peak, lowest, games rated,
\* last change) and every history entry (before, after, change) as they are.
C38_ReplayAgrees == recalculate_pod_elo(EloState, pod_matches) = EloState

C38_Witness ==
    /\ Cardinality(RatedMatches) = 2
    /\ Len(history) >= 6
    /\ \E r \in ratings : r.games_rated = 2 /\ r.current_elo # r.peak_elo

\* games_rated of a player (0 without a rating document).
GamesRated(player_id) ==
    IF HasRating(ratings, player_id) THEN FindRating(ratings, player_id).games_rated ELSE 0

\* Stored playgroup matches with at least 3 participants that include the player.
MatchesOf(player_id) ==
    {i \in RatedMatches :
        /\ Len(pod_matches[i].players) >= 3
        /\ \E k \in DOMAIN pod_matches[i].players :
                pod_matches[i].players[k].player_id = player_id}

\* C39: after any creates, edits and deletes, every player's games_rated is the
\* number of the player's history entries, which is the number of stored
\* playgroup matches with at least 3 participants that include the player, and
\* no history entry refers to a deleted match.
C39_GamesRatedCounts ==
    /\ \A i \in DOMAIN EloPlayers :
            /\ GamesRated(EloPlayers[i]) = Len(HistoryOf(EloPlayers[i]))
            /\ Len(HistoryOf(EloPlayers[i])) = Cardinality(MatchesOf(EloPlayers[i]))
    /\ \A r \in ratings : \E i \in DOMAIN EloPlayers : EloPlayers[i] = r.player_id
    /\ \A k \in DOMAIN history : history[k].match_id \in RatedMatches

C39_Witness ==
    /\ \E i \in DOMAIN pod_matches : pod_matches[i].deleted
    /\ Cardinality(RatedMatches) = 1
    /\ GamesRated("p1") = 1
    /\ Len(history) >= 3

\* The event has a round of that number with a pod of that index.
PodExists(ev, round_num, pod_index) ==
    \E i \in DOMAIN ev.rounds :
        /\ ev.rounds[i].round_number = round_num
        /\ \E j \in DOMAIN ev.rounds[i].pods : ev.rounds[i].pods[j].pod_index = pod_index

\* That pod holds the deck entry of the player.
HasDeckEntry(ev, round_num, pod_index, player_id, deck_name) ==
    \E i \in DOMAIN ev.rounds :
        /\ ev.rounds[i].round_number = round_num
        /\ \E j \in DOMAIN ev.rounds[i].pods :
                /\ ev.rounds[i].pods[j].pod_index = pod_index
                /\ [player_id |-> player_id, deck_name |-> deck_name]
                        \in ev.rounds[i].pods[j].player_decks

\* C40: a set-deck request whose event is not active, or has no round of the
\* given number or no pod of the given index in it, is answered 404 and stores
\* nothing, and a request answered ok has written its deck entry to the pod.
C40_SetDeckNotFound ==
    [][\A c \in DeckCallIds :
          (deck_calls[c].pc = "update" /\ deck_calls'[c].pc = "done") =>
              LET call == deck_calls[c]
              IN  /\ (event.status # "active"
                        \/ ~PodExists(event, call.round_num, call.pod_index))
                          => (deck_calls'[c].code = "404" /\ event' = event)
                  /\ deck_calls'[c].code = "ok"
                          => HasDeckEntry(event', call.round_num, call.pod_index,
                                          call.player_id, DeckStore[call.deck_id].name)]_vars

====
